---- MODULE Spec2Model ----
(***************************************************************************)
(* Model of the PhilosophyDialog orchestrator (src/unnamed/part_003): the  *)
(* #run loop, the two turn executors (#openaiTurn, #anthropicTurn), the    *)
(* tool dispatch inside them, and the #finish sequence.                    *)
(*                                                                         *)
(* The program is single-threaded; each action is one stretch of code      *)
(* between two suspension points (a vendor request, a handler call, the    *)
(* pacing sleep, a postprocessing call).  Vendor responses, handler        *)
(* outcomes and the size estimate are inputs and are chosen with \E.       *)
(***************************************************************************)
EXTENDS Integers, Sequences, FiniteSets, TLC

(***************************************************************************)
(* Bounds of the model (not program constants).                            *)
(***************************************************************************)
\* what a run may contain in all: each turn started and each function-call
\* item / tool_use block received from a vendor counts one
MaxEvents == 4
\* invocations of #finish made after the exit flag is set
MaxFinishAgain == 1

\* invocations of the data-file handlers (notes, system instructions)
MaxHandlerCalls == 3

\* characters of the query text of a graph_rag_query call
MaxQueryLen == 3

\* calls of #writeGraphToNeo4j against one graph store (one per run that
\* reaches the graph write)
MaxGraphWrites == 2

(***************************************************************************)
(* Sides, names and fixed texts.                                           *)
(***************************************************************************)
ModelSide == {"openai", "anthropic"}

OtherSide(side) == IF side = "openai" THEN "anthropic" ELSE "openai"

DEFAULT_OPENAI_NAME == "GPT 5.1"
DEFAULT_ANTHROPIC_NAME == "Claude Haiku 4.5"

\* a naming that logs every utterance under the OpenAI side's name
SpeakerNameOfOpenai(side) == DEFAULT_OPENAI_NAME

\* the display name under which a side's utterances are logged
SpeakerName(side) ==
    IF side = "anthropic" THEN DEFAULT_ANTHROPIC_NAME ELSE DEFAULT_OPENAI_NAME

\* `${speakerName} (initial prompt)`
InitialPromptName(side) ==
    IF side = "anthropic" THEN "Claude Haiku 4.5 (initial prompt)"
    ELSE "GPT 5.1 (initial prompt)"

\* a label for the reasoning records that leaves out the side's name
ThinkingNameBare(side) == "(thinking)"

\* `${name} (thinking)`
ThinkingName(side) ==
    IF side = "anthropic" THEN "Claude Haiku 4.5 (thinking)"
    ELSE "GPT 5.1 (thinking)"

\* `${actor} (tool ${event})`
ToolEventName(side, event) ==
    IF side = "anthropic"
    THEN (IF event = "call" THEN "Claude Haiku 4.5 (tool call)"
          ELSE "Claude Haiku 4.5 (tool result)")
    ELSE (IF event = "call" THEN "GPT 5.1 (tool call)"
          ELSE "GPT 5.1 (tool result)")

MODERATOR == "moderator"

\* the seeded self-introduction of a side
SelfIntroduction(side) ==
    IF side = "anthropic" THEN "intro: Claude Haiku 4.5" ELSE "intro: GPT 5.1"

\* the fixed "still thinking" text of a side
PlaceholderText(side) ==
    IF side = "anthropic" THEN "placeholder: Claude Haiku 4.5"
    ELSE "placeholder: GPT 5.1"

\* closing remark, worded by the hush flag
ClosingRemark(hush) == IF hush THEN "closing: context limit" ELSE "closing: model decision"

DEFAULT_ADD_PROMPT == "DEFAULT_ADD_PROMPT"
TERMINATE_ADD_PROMPT == "TERMINATE_ADD_PROMPT"
TOKEN_LIMIT_ADD_PROMPT == "TOKEN_LIMIT_ADD_PROMPT"
\* the OpenAI executor passes `undefined` as the extra instruction under hush
NO_ADD_PROMPT == "undefined"

(***************************************************************************)
(* Tool registry (names only) and the inputs the vendors can supply.       *)
(***************************************************************************)
\* names #buildTools registers that matter to the orchestrator, plus one
\* ordinary tool standing for the handlers that only touch files
RegisteredTools == {"terminate_dialog", "abort_process", "get_personal_notes"}

\* names a vendor response may carry: registered ones and one that is not
ToolNames == RegisteredTools \cup {"no_such_tool"}

\* a lookup that resolves every name
findToolLenient(name) == TRUE

\* #findTool: TRUE iff the name resolves (otherwise it throws)
findTool(name) == name \in RegisteredTools

\* the batches of at most n tool calls one response may carry
Batches(n) == UNION {[1..k -> ToolNames] : k \in 1..n}

\* shapes of a vendor response, as the executors distinguish them
\*   throw   : the request rejects
\*   empty   : no output item / no non-thinking block
\*   calls   : at least one function_call / tool_use
\*   text    : a final answer with text
\*   silence : a final answer whose text is ""
\*   notext  : a final answer without a message item / text block
FinalKinds == {"throw", "empty", "text", "silence", "notext"}

\* the responses a vendor may give when n more tool calls fit the bound
Responses(n) ==
    {[kind |-> k, calls |-> <<>>] : k \in FinalKinds}
        \cup {[kind |-> "calls", calls |-> b] : b \in Batches(n)}

\* a final OpenAI answer may also be a refusal: a message item whose content
\* holds no output_text part
OpenaiFinalKinds == FinalKinds \cup {"refusal"}

\* the responses the OpenAI side may give when n more tool calls fit the bound
OpenaiResponses(n) ==
    {[kind |-> k, calls |-> <<>>] : k \in OpenaiFinalKinds}
        \cup {[kind |-> "calls", calls |-> b] : b \in Batches(n)}

\* Every response that arrives is taken to report what the requests ask
\* for: reasoning-token details (OpenAI, first response of a turn) and one
\* thinking block (Anthropic); each is logged as a "(thinking)" record.

\* a final answer without text replaced by a filler
OutputTextFiller(kind) == IF kind = "text" THEN "text" ELSE "(no text)"

\* the text a final answer contributes to the message sequence
OutputText(kind) == IF kind = "text" THEN "text" ELSE ""

VARIABLES
    startingSide,          \* #startingSide
    messages,              \* #messages
    log,                   \* records written through #log, in order
    hushFinish,            \* #hushFinish
    finishTurnCount,       \* #finishTurnCount
    started,               \* #started
    terminationAccepted,   \* #terminationAccepted
    shouldExit,            \* #shouldExit
    hasRun,                \* #hasRun
    openaiFailureCount,    \* #openaiFailureCount
    anthropicFailureCount, \* #anthropicFailureCount
    pc,                    \* position of #run / #finish
    tpc,                   \* position of the current turn executor
    functionCalls,         \* the batch of tool calls being dispatched
    callIdx,               \* index of the next call of the batch
    extraInstruction,      \* extra instruction of the latest turn request
    caught,                \* what the current turn's catch block caught
    apiCalls,              \* vendor requests issued so far
    dispatched,            \* handler invocations so far
    toolCalls,             \* tool-call items received from the vendors so far
    abortRan,              \* #abortProcessHandler has run
    hushAt,                \* Len(messages) when hush was raised, 0 if not
    terminateAt,           \* Len(messages) when terminate_dialog ran, 0 if not
    finishAgain,           \* invocations of #finish made after the exit flag was set
    wrapUpAsked,           \* sides a request to which carried the context-limit wrap-up
    answered,              \* shape of the latest response of the turn in progress
    modelData,             \* the participant data files `${dataDir}/${side}.json`
    pendingFile,           \* the pending system-instruction file
    toolCall,              \* the latest invocation of a data-file handler and its result
    handlerCalls,          \* invocations of data-file handlers so far
    store,                 \* the graph store: Run, Node, Concept entities and relationships
    lastWrite,             \* the latest #writeGraphToNeo4j call and how it ended
    graphWrites,           \* #writeGraphToNeo4j calls so far
    ragCall                \* the latest graph_rag_query / graph_rag_focus_node call and its result

vars == <<startingSide, messages, log, hushFinish, finishTurnCount, started,
          terminationAccepted, shouldExit, hasRun, openaiFailureCount,
          anthropicFailureCount, pc, tpc, functionCalls, callIdx,
          extraInstruction, caught, apiCalls, dispatched, toolCalls,
          abortRan, hushAt, terminateAt, finishAgain, wrapUpAsked, answered,
          modelData, pendingFile, toolCall, handlerCalls,
          store, lastWrite, graphWrites, ragCall>>

\* the orchestrator's own state: everything but the data files
runVars == <<startingSide, messages, log, hushFinish, finishTurnCount, started,
             terminationAccepted, shouldExit, hasRun, openaiFailureCount,
             anthropicFailureCount, pc, tpc, functionCalls, callIdx,
             extraInstruction, caught, apiCalls, dispatched, toolCalls,
             abortRan, hushAt, terminateAt, finishAgain, wrapUpAsked, answered>>

\* the files the data-file handlers work on, and the record of their calls
toolVars == <<modelData, pendingFile, toolCall, handlerCalls>>

\* the graph store and the records of the calls that write and read it
graphVars == <<store, lastWrite, graphWrites, ragCall>>

failVars == <<openaiFailureCount, anthropicFailureCount>>
batchVars == <<functionCalls, callIdx>>

Last(s) == s[Len(s)]

\* the part of MaxEvents used up, the turn in progress included
EventsUsed == (Len(messages) - 1) + toolCalls

\* a further turn fits the bound
TurnFits == EventsUsed < MaxEvents

\* the tool calls a response of the turn in progress may still carry
CallsLeft == MaxEvents - EventsUsed - 1

\* #log: one record appended to the log
Log(l, name, text) == Append(l, [name |-> name, text |-> text])

\* a #logToolEvent that labels every record as a call
logToolEventAsCall(l, side, event, tool) ==
    Log(l, ToolEventName(side, "call"), [tool |-> tool])

\* #logToolEvent
logToolEvent(l, side, event, tool) ==
    Log(l, ToolEventName(side, event), [tool |-> tool])

\* #err with the placeholder attributed to the wrong side
errOtherSide(name) == [name |-> OtherSide(name), content |-> PlaceholderText(name)]

\* #err: the placeholder message of a side
err(name) == [name |-> name, content |-> PlaceholderText(name)]

\* #shouldFinish without the terminationAccepted disjunct
shouldFinishHushOnly(count, accepted) == count >= 2

\* #shouldFinish, on given values of the counter and the flag
shouldFinish(count, accepted) == count >= 2 \/ accepted

\* #initializeConversation
\* a seeding that attributes the self-introduction to the other side
initializeConversationOtherSide(side) ==
    /\ messages = <<[name |-> OtherSide(side), content |-> SelfIntroduction(side)]>>
    /\ log = Log(<<>>, InitialPromptName(side), SelfIntroduction(side))

initializeConversation(side) ==
    /\ messages = <<[name |-> side, content |-> SelfIntroduction(side)]>>
    /\ log = Log(<<>>, InitialPromptName(side), SelfIntroduction(side))

(***************************************************************************)
(* The data files: one participant record per side and the pending         *)
(* system-instruction proposal.  Every file operation may succeed or fail. *)
(***************************************************************************)
\* non-blank instruction texts a side may propose (already trimmed)
InstructionTexts == {"inst_a", "inst_b"}

\* what `String(args.systemInstructions ?? '').trim()` may come to
InstructionArgs == InstructionTexts \cup {""}

\* what `String(args.notes || '')` may come to
NoteArgs == {"", "note_a"}

\* the record readModelDataFromDir falls back to (lines 384-387)
DefaultData == [personalNotes |-> "", additionalSystemInstructions |-> ""]

\* no pending proposal: the file is absent, or what is read from it is null
NoPending == [instructions |-> "", requestedBy |-> "none"]

\* no data-file handler has been invoked yet
NoCall == [tool |-> "none", modelSide |-> "none", arg |-> "",
           success |-> FALSE, value |-> "", ioFailed |-> FALSE,
           pendingBefore |-> NoPending]

\* readModelDataFromDir: the record of the file, or the default when the
\* read or the parse fails
readModelDataFromDir(files, side, ok) == IF ok THEN files[side] ELSE DefaultData

\* writeModelDataToDir: the file is replaced; a failure is logged to the
\* console and swallowed
writeModelDataToDir(files, side, data, ok) ==
    IF ok THEN [files EXCEPT ![side] = data] ELSE files

\* readPendingSystemInstructionsFromFile: null when the read fails or a
\* field is missing
readPendingSystemInstructionsFromFile(file, ok) ==
    IF ok /\ file.instructions # "" /\ file.requestedBy # "none"
    THEN file ELSE NoPending

\* writePendingSystemInstructionsToFile: unlink (failure ignored) for null,
\* writeFile (failure thrown) otherwise; the file afterwards and whether the
\* call threw
writePendingSystemInstructionsToFile(file, pending, ok) ==
    IF pending = NoPending
    THEN [file |-> IF ok THEN NoPending ELSE file, threw |-> FALSE]
    ELSE [file |-> IF ok THEN pending ELSE file, threw |-> ~ok]

\* the data directory of a first run: no participant file, no pending file
dataInit ==
    /\ modelData = [side \in ModelSide |-> DefaultData]
    /\ pendingFile = NoPending
    /\ toolCall = NoCall
    /\ handlerCalls = 0

(***************************************************************************)
(* The graph store and the write path.  A text is a sequence of            *)
(* characters, so that normalisation is computed character by character.   *)
(***************************************************************************)
\* run ids as getDate() makes them: `${YYYY}${MM}${DD}-${hh}${mm}${ss}`
RunIds == {"20250101-000000", "20250101-000001"}

\* what `randomBytes(12).toString('base64url')` may return
RandomIds == {"rndA", "rndB"}

\* the local ids the extracted graph may give its nodes
LocalIds == {"n1", ""}

\* a test that takes every local id for blank
IsBlankIdAlways(rawId) == TRUE

\* `key.trim().length > 0` fails
IsBlankId(rawId) == rawId \in {"", " "}

\* the node types the extracted graph may carry
NodeTypes == {"concept", "claim"}

\* the node texts the extracted graph may carry: blank, and two spellings
\* of the same words
Texts == {<<" ">>, <<"FULLWIDTH_W", " ", " ", "w">>, <<"w", " ", "W", " ">>}

\* String.prototype.normalize('NFKC') on one character
NFKC(c) == IF c = "FULLWIDTH_W" THEN "W" ELSE c

\* toLowerCase on one character
toLowerCaseChar(c) == IF c = "W" THEN "w" ELSE c

\* toLowerCase on a node type
toLowerCase(type) ==
    CASE type = "Concept" -> "concept"
      [] type = "Claim" -> "claim"
      [] OTHER -> type

\* toUpperCase on an edge type
toUpperCase(type) ==
    CASE type = "supports" -> "SUPPORTS"
      [] type = "cites" -> "CITES"
      [] OTHER -> type

\* `replace(/\s+/g, ' ')`: every run of white space becomes one space
RECURSIVE collapseSpaces(_)
collapseSpaces(t) ==
    IF Len(t) <= 1 THEN t
    ELSE IF t[1] = " " /\ t[2] = " " THEN collapseSpaces(Tail(t))
    ELSE <<t[1]>> \o collapseSpaces(Tail(t))

RECURSIVE trimStart(_)
trimStart(t) == IF t # <<>> /\ t[1] = " " THEN trimStart(Tail(t)) ELSE t

RECURSIVE trimEnd(_)
trimEnd(t) ==
    IF t # <<>> /\ t[Len(t)] = " " THEN trimEnd(SubSeq(t, 1, Len(t) - 1)) ELSE t

\* String.prototype.trim
trim(t) == trimEnd(trimStart(t))

\* the characters of a text as one string
RECURSIVE Join(_)
Join(t) == IF t = <<>> THEN "" ELSE t[1] \o Join(Tail(t))

\* lines 265-273: normalizeConceptText.  `null` is the empty sequence: a
\* result that is not null is never empty.
normalizeConceptText(text) ==
    IF text = <<>> THEN <<>>
    ELSE trim(collapseSpaces([i \in 1..Len(text) |-> toLowerCaseChar(NFKC(text[i]))]))

\* `null` of buildConceptKey
NoConceptKey == [key |-> "", normalizedText |-> ""]

\* lines 275-283: buildConceptKey
buildConceptKey(type, text) ==
    LET normalizedText == normalizeConceptText(text)
    IN IF normalizedText = <<>> THEN NoConceptKey
       ELSE [key |-> toLowerCase(type) \o ":" \o Join(normalizedText),
             normalizedText |-> Join(normalizedText)]

\* a node of an extracted graph
Node(id, type, text) == [id |-> id, type |-> type, text |-> text, speaker |-> "openai"]

\* the nodes of the one-node graphs: a text under a local id, the same words
\* spelled differently under a blank local id, a blank text, and the text
\* under another type
NodeChoices ==
    {Node("n1", "concept", <<"w", " ", "W", " ">>),
     Node("", "concept", <<"FULLWIDTH_W", " ", " ", "w">>),
     Node("n1", "concept", <<" ">>),
     Node("n1", "claim", <<"w", " ", "W", " ">>)}

\* the edges of an extracted graph: from its first node to its last, one of
\* a known type and one of an unknown type
EdgesOf(nodes) ==
    <<[source |-> nodes[1].id, target |-> nodes[Len(nodes)].id, type |-> "supports"],
      [source |-> nodes[1].id, target |-> nodes[Len(nodes)].id, type |-> "cites"]>>

\* the two-node graphs: the first node is followed by a node of the same
\* local id and blank text, or by the node of blank local id; and two nodes
\* that both have the blank local id
NodePairs ==
    {<<Node("n1", "concept", <<"w", " ", "W", " ">>), m>> :
        m \in {n \in NodeChoices : n.type = "concept" /\ n.text # <<"w", " ", "W", " ">>}}
    \cup {<<Node("", "concept", <<"FULLWIDTH_W", " ", " ", "w">>),
            Node("", "claim", <<" ">>)>>}

\* the extracted graphs
Graphs ==
    {[nodes |-> <<n>>, edges |-> EdgesOf(<<n>>)] : n \in NodeChoices}
    \cup {[nodes |-> ns, edges |-> EdgesOf(ns)] : ns \in NodePairs}

\* the empty graph store
EmptyStore ==
    [runs |-> {}, nodes |-> {}, inRun |-> {}, concepts |-> {}, links |-> {},
     rels |-> {}]

\* lines 710-722: getOrCreateNamespacedId.  `rnd` is the random id the map
\* holds for each blank key once it was asked for it.
getOrCreateNamespacedId(runId, rawId, rnd) ==
    runId \o ":" \o (IF IsBlankId(rawId) THEN rnd[rawId] ELSE rawId)

\* lines 725-731: MERGE (r:Run {id: $runId})
mergeRun(st, runId) == [st EXCEPT !.runs = @ \cup {runId}]

\* lines 737-768: the query that upserts one node, links it to its run and,
\* when it has a concept key, upserts the Concept and links the node to it
mergeNode(st, runId, node, id) ==
    LET conceptKeyData == buildConceptKey(node.type, node.text)
        entity == [id |-> id, text |-> node.text, type |-> node.type,
                   speaker |-> node.speaker, original_id |-> node.id]
        st1 == [st EXCEPT !.nodes = {n \in @ : n.id # id} \cup {entity}]
        created == [key |-> conceptKeyData.key, type |-> node.type,
                    normalized_text |-> conceptKeyData.normalizedText,
                    latest_text |-> node.text]
        concept ==
            IF \E c \in st.concepts : c.key = conceptKeyData.key
            THEN [(CHOOSE c \in st.concepts : c.key = conceptKeyData.key)
                     EXCEPT !.latest_text = node.text]
            ELSE created
    IN IF runId \notin st.runs THEN st1
       ELSE IF conceptKeyData = NoConceptKey
       THEN [st1 EXCEPT !.inRun = @ \cup {<<id, runId>>}]
       ELSE [st1 EXCEPT !.inRun = @ \cup {<<id, runId>>},
                        !.concepts = {c \in @ : c.key # conceptKeyData.key}
                                        \cup {concept},
                        !.links = @ \cup {<<id, conceptKeyData.key>>}]

\* the relationship types the write path lets through
KnownRelTypes == {"SUPPORTS", "CONTRADICTS", "ELABORATES", "RESPONDS_TO", "REFERS_TO"}

\* lines 782-792: MATCH both nodes, MERGE the relationship
mergeEdge(st, relType, sourceId, targetId) ==
    IF /\ \E n \in st.nodes : n.id = sourceId
       /\ \E n \in st.nodes : n.id = targetId
    THEN [st EXCEPT !.rels = @ \cup {<<sourceId, relType, targetId>>}]
    ELSE st

\* the queries one call of #writeGraphToNeo4j issues, in order
writeQueries(runId, graph, rnd) ==
    LET known == SelectSeq(graph.edges, LAMBDA e : toUpperCase(e.type) \in KnownRelTypes)
    IN <<[op |-> "run"]>>
       \o [i \in 1..Len(graph.nodes) |->
             [op |-> "node", node |-> graph.nodes[i],
              id |-> getOrCreateNamespacedId(runId, graph.nodes[i].id, rnd)]]
       \o [i \in 1..Len(known) |->
             [op |-> "edge", relType |-> toUpperCase(known[i].type),
              source |-> getOrCreateNamespacedId(runId, known[i].source, rnd),
              target |-> getOrCreateNamespacedId(runId, known[i].target, rnd)]]

\* the store after one query
runQuery(st, runId, q) ==
    CASE q.op = "run" -> mergeRun(st, runId)
      [] q.op = "node" -> mergeNode(st, runId, q.node, q.id)
      [] q.op = "edge" -> mergeEdge(st, q.relType, q.source, q.target)

\* the store after the first k of the queries
RECURSIVE runQueries(_, _, _, _)
runQueries(st, runId, queries, k) ==
    IF k = 0 THEN st
    ELSE runQuery(runQueries(st, runId, queries, k - 1), runId, queries[k])

\* lines 704-796: #writeGraphToNeo4j, all its queries succeeding
writeGraphToNeo4j(st, runId, graph, rnd) ==
    LET queries == writeQueries(runId, graph, rnd)
    IN runQueries(st, runId, queries, Len(queries))

\* no graph was written yet
NoWrite ==
    [runId |-> "", graph |-> [nodes |-> <<>>, edges |-> <<>>], rnd |-> "",
     threw |-> FALSE, written |-> FALSE, again |-> FALSE]

\* no retrieval handler was invoked yet
NoRagCall ==
    [tool |-> "none", arg |-> <<>>, stage |-> "idle", outcome |-> "none",
     context |-> [kind |-> "none"], storeQueries |-> 0, condense |-> "not_asked",
     session |-> "none"]

\* an empty graph store, nothing written or retrieved
graphInit ==
    /\ store = EmptyStore
    /\ lastWrite = NoWrite
    /\ graphWrites = 0
    /\ ragCall = NoRagCall

\* the state after `new PhilosophyDialog(...)`
Init ==
    /\ startingSide \in ModelSide
    /\ initializeConversation(startingSide)
    /\ hushFinish = FALSE
    /\ finishTurnCount = 0
    /\ started = FALSE
    /\ terminationAccepted = FALSE
    /\ shouldExit = FALSE
    /\ hasRun = FALSE
    /\ openaiFailureCount = 0
    /\ anthropicFailureCount = 0
    /\ pc = "created"
    /\ tpc = "idle"
    /\ functionCalls = <<>>
    /\ callIdx = 1
    /\ extraInstruction = "none"
    /\ caught = "none"
    /\ apiCalls = 0
    /\ dispatched = 0
    /\ toolCalls = 0
    /\ abortRan = FALSE
    /\ hushAt = 0
    /\ terminateAt = 0
    /\ finishAgain = 0
    /\ wrapUpAsked = {}
    /\ answered = "none"
    /\ dataInit
    /\ graphInit

(***************************************************************************)
(* #run: the loop head and the code after each turn.                       *)
(***************************************************************************)
\* line 644 without the test of the starting side
openaiBlockRunsAlways(st, side) == TRUE

\* line 644: whether this iteration runs the OpenAI block
openaiBlockRuns(st, side) == st \/ side = "anthropic"

\* a checkpoint that counts every turn
hushCheckpointAlways(count, hush) == count + 1

\* a checkpoint that never counts
hushCheckpointNever(count, hush) == count

\* the increment `if (this.#hushFinish) this.#finishTurnCount += 1`
hushCheckpoint(count, hush) == IF hush THEN count + 1 ELSE count

\* PhilosophyDialog.execute: #run is entered (once per instance)
Run ==
    /\ pc = "created"
    /\ ~hasRun
    /\ hasRun' = TRUE
    /\ pc' = "loop"
    /\ UNCHANGED <<startingSide, messages, log, hushFinish, finishTurnCount,
                   started, terminationAccepted, shouldExit, failVars, tpc,
                   batchVars, extraInstruction, caught, apiCalls, dispatched,
                   toolCalls, abortRan, hushAt, terminateAt,
                   finishAgain,
                   wrapUpAsked, answered, toolVars, graphVars>>

\* `while (!this.#shouldExit)` and the choice of the block to run
RunLoop ==
    /\ pc = "loop"
    /\ IF shouldExit
       THEN /\ pc' = "done"
            /\ UNCHANGED <<started, tpc, caught, answered>>
       ELSE /\ TurnFits
            /\ started' = TRUE
            /\ pc' = IF openaiBlockRuns(started, startingSide)
                     THEN "openaiTurn" ELSE "anthropicTurn"
            /\ tpc' = "start"
            /\ caught' = "none"
            /\ answered' = "none"
    /\ UNCHANGED <<startingSide, messages, log, hushFinish, finishTurnCount,
                   terminationAccepted, shouldExit, hasRun, failVars,
                   batchVars, extraInstruction, apiCalls, dispatched,
                   toolCalls, abortRan, hushAt, terminateAt,
                   finishAgain,
                   wrapUpAsked, toolVars, graphVars>>

\* #finish without the guard of lines 1834-1836
finishUnguarded(l, back) ==
    /\ shouldExit' = TRUE
    /\ log' = Log(l, MODERATOR, ClosingRemark(hushFinish))
    /\ pc' = "finish_summary"

\* #finish, its synchronous head: the guard on the exit flag, the flag, the
\* closing remark.  `l` is the log so far, `back` the position of the caller
\* to return to when the guard returns at once.
finish(l, back) ==
    /\ IF shouldExit
       THEN /\ log' = l
            /\ pc' = back
            /\ UNCHANGED shouldExit
       ELSE /\ shouldExit' = TRUE
            /\ log' = Log(l, MODERATOR, ClosingRemark(hushFinish))
            /\ pc' = "finish_summary"

\* lines 647-660: after `await this.#openaiTurn()`
AfterOpenaiTurn ==
    /\ pc = "openaiTurn"
    /\ tpc = "returned"
    /\ tpc' = "idle"
    /\ caught' = "none"
    /\ answered' = "none"
    /\ IF shouldExit
       THEN /\ pc' = "done"
            /\ UNCHANGED <<finishTurnCount, log, shouldExit>>
       ELSE /\ finishTurnCount' = hushCheckpoint(finishTurnCount, hushFinish)
            /\ LET l == Log(log, SpeakerName("openai"), Last(messages).content)
               IN IF shouldFinish(finishTurnCount', terminationAccepted)
                  THEN finish(l, "done")
                  ELSE /\ log' = l
                       /\ pc' = "sleepOpenai"
                       /\ UNCHANGED shouldExit
    /\ UNCHANGED <<startingSide, messages, hushFinish, started,
                   terminationAccepted, hasRun, failVars, batchVars,
                   extraInstruction, apiCalls, dispatched, toolCalls,
                   abortRan, hushAt, terminateAt,
                   finishAgain,
                   wrapUpAsked, toolVars, graphVars>>

\* lines 661-671: the pacing sleep after the OpenAI turn, the second
\* checkpoint, and the entry into the Anthropic turn
SleepOpenai ==
    /\ pc = "sleepOpenai"
    /\ IF shouldExit
       THEN /\ pc' = "done"
            /\ UNCHANGED <<finishTurnCount, started, tpc, caught, answered>>
       ELSE /\ TurnFits
            /\ finishTurnCount' = hushCheckpoint(finishTurnCount, hushFinish)
            /\ started' = TRUE
            /\ pc' = "anthropicTurn"
            /\ tpc' = "start"
            /\ caught' = "none"
            /\ answered' = "none"
    /\ UNCHANGED <<startingSide, messages, log, hushFinish,
                   terminationAccepted, shouldExit, hasRun, failVars,
                   batchVars, extraInstruction, apiCalls, dispatched,
                   toolCalls, abortRan, hushAt, terminateAt,
                   finishAgain,
                   wrapUpAsked, toolVars, graphVars>>

\* lines 672-682: after `await this.#anthropicTurn()`
AfterAnthropicTurn ==
    /\ pc = "anthropicTurn"
    /\ tpc = "returned"
    /\ tpc' = "idle"
    /\ caught' = "none"
    /\ answered' = "none"
    /\ IF shouldExit
       THEN /\ pc' = "done"
            /\ UNCHANGED <<log, shouldExit>>
       ELSE LET l == Log(log, SpeakerName("anthropic"), Last(messages).content)
            IN IF shouldFinish(finishTurnCount, terminationAccepted)
               THEN finish(l, "done")
               ELSE /\ log' = l
                    /\ pc' = "sleepAnthropic"
                    /\ UNCHANGED shouldExit
    /\ UNCHANGED <<startingSide, messages, hushFinish, finishTurnCount, started,
                   terminationAccepted, hasRun, failVars, batchVars,
                   extraInstruction, apiCalls, dispatched, toolCalls,
                   abortRan, hushAt, terminateAt,
                   finishAgain,
                   wrapUpAsked, toolVars, graphVars>>

\* lines 683-686: the pacing sleep after the Anthropic turn
SleepAnthropic ==
    /\ pc = "sleepAnthropic"
    /\ pc' = IF shouldExit THEN "done" ELSE "loop"
    /\ UNCHANGED <<startingSide, messages, log, hushFinish, finishTurnCount,
                   started, terminationAccepted, shouldExit, hasRun, failVars,
                   tpc, batchVars, extraInstruction, caught, apiCalls,
                   dispatched, toolCalls, abortRan, hushAt, terminateAt,
                   finishAgain,
                   wrapUpAsked, answered, toolVars, graphVars>>

(***************************************************************************)
(* Tool handlers, as far as the orchestrator's state is concerned.         *)
(***************************************************************************)
\* a terminate_dialog handler that forgets the flag
terminateDialogHandlerNoFlag(accepted) == accepted

\* #terminateDialogHandler: the new value of #terminationAccepted
terminateDialogHandler(accepted) == TRUE

\* an abort_process handler that only throws
abortProcessHandlerOnlyThrows(exit) == exit

\* #abortProcessHandler: the new value of #shouldExit (it then throws)
abortProcessHandler(exit) == TRUE

\* the outcomes of a handler that touches neither flag: it returns or rejects
HandlerOutcomes == {"returns", "rejects"}

(***************************************************************************)
(* #openaiTurn                                                             *)
(***************************************************************************)
\* lines 1710-1715: the catch block.  `exit` is #shouldExit as the block
\* reads it, `e` what was thrown, `l` the log so far.
openaiCatch(exit, e, l) ==
    /\ caught' = e
    /\ tpc' = "returned"
    /\ log' = l
    /\ IF exit
       THEN UNCHANGED <<messages, openaiFailureCount>>
       ELSE /\ openaiFailureCount' = openaiFailureCount + 1
            /\ messages' = Append(messages, err("openai"))
    /\ functionCalls' = <<>>
    /\ callIdx' = 1
    /\ UNCHANGED <<anthropicFailureCount, toolCalls>>

\* a test that never finds the output array empty
outputItemsEmptyNever(kind) == FALSE

\* line 1632: `!outputItems || outputItems.length === 0`
outputItemsEmpty(kind) == kind = "empty"

\* lines 1629-1642 and 1694-1709: one pass of the loop over a response
openaiOutput(r, l) ==
    CASE r.kind = "throw" -> openaiCatch(shouldExit, "vendor", l)
      [] outputItemsEmpty(r.kind) -> openaiCatch(shouldExit, "empty", l)
      [] r.kind = "calls" ->
            /\ functionCalls' = r.calls
            /\ callIdx' = 1
            /\ toolCalls' = toolCalls + Len(r.calls)
            /\ tpc' = "dispatch"
            /\ log' = l
            /\ UNCHANGED <<messages, failVars, caught>>
      [] OTHER ->
            /\ messages' = Append(messages,
                    [name |-> "openai", content |-> OutputText(r.kind)])
            /\ tpc' = "returned"
            /\ log' = l
            /\ functionCalls' = <<>>
            /\ callIdx' = 1
            /\ UNCHANGED <<failVars, toolCalls, caught>>

\* a first request that never carries the moderator's wrap-up message
openaiWrapUpMessageNever(hush) == FALSE

\* lines 1588-1593: the moderator's wrap-up message is pushed onto the
\* request's input when the hush flag is set
openaiWrapUpMessage(hush) == hush

\* lines 1573-1627: the size estimate, the hush flag, the first request
OpenaiRequest ==
    /\ pc = "openaiTurn"
    /\ tpc = "start"
    /\ ~shouldExit
    /\ \E over \in BOOLEAN :
         /\ hushFinish' = (hushFinish \/ over)
         /\ hushAt' = IF ~hushFinish /\ over THEN Len(messages) ELSE hushAt
    /\ extraInstruction' = IF hushFinish' THEN NO_ADD_PROMPT ELSE DEFAULT_ADD_PROMPT
    /\ wrapUpAsked' = IF openaiWrapUpMessage(hushFinish')
                       THEN wrapUpAsked \cup {"openai"} ELSE wrapUpAsked
    /\ apiCalls' = apiCalls + 1
    /\ \E r \in OpenaiResponses(CallsLeft) :
         /\ answered' = r.kind
         /\ IF r.kind = "throw"
            THEN openaiOutput(r, log)
            ELSE openaiOutput(r, Log(log, ThinkingName("openai"), "reasoning_tokens"))
    /\ UNCHANGED <<startingSide, finishTurnCount, started, terminationAccepted,
                   shouldExit, hasRun, pc, dispatched, abortRan, terminateAt,
                   finishAgain,
                   toolVars, graphVars>>

\* lines 1645-1665: one function call of the batch
OpenaiDispatch ==
    /\ pc = "openaiTurn"
    /\ tpc = "dispatch"
    /\ callIdx <= Len(functionCalls)
    /\ LET name == functionCalls[callIdx]
           l1 == logToolEvent(log, "openai", "call", name)
           l2 == logToolEvent(l1, "openai", "result", name)
       IN CASE ~findTool(name) ->
                 /\ openaiCatch(shouldExit, "unknown_tool", log)
                 /\ UNCHANGED <<terminationAccepted, shouldExit, dispatched,
                                abortRan, terminateAt>>
            [] name = "terminate_dialog" ->
                 /\ terminationAccepted' = terminateDialogHandler(terminationAccepted)
                 /\ terminateAt' = IF terminateAt = 0 THEN Len(messages) ELSE terminateAt
                 /\ dispatched' = dispatched + 1
                 /\ log' = l2
                 /\ callIdx' = callIdx + 1
                 /\ UNCHANGED <<messages, failVars, functionCalls, toolCalls,
                                tpc, caught, shouldExit, abortRan>>
            [] name = "abort_process" ->
                 /\ shouldExit' = abortProcessHandler(shouldExit)
                 /\ abortRan' = TRUE
                 /\ dispatched' = dispatched + 1
                 /\ openaiCatch(shouldExit', "abort", l1)
                 /\ UNCHANGED <<terminationAccepted, terminateAt>>
            [] OTHER ->
                 /\ dispatched' = dispatched + 1
                 /\ \E outcome \in HandlerOutcomes :
                      IF outcome = "returns"
                      THEN /\ log' = l2
                           /\ callIdx' = callIdx + 1
                           /\ UNCHANGED <<messages, failVars, functionCalls,
                                          toolCalls, tpc, caught>>
                      ELSE openaiCatch(shouldExit, "tool", l1)
                 /\ UNCHANGED <<terminationAccepted, shouldExit, abortRan,
                                terminateAt>>
    /\ UNCHANGED <<startingSide, hushFinish, finishTurnCount, started, hasRun,
                   pc, extraInstruction, apiCalls, hushAt,
                   finishAgain,
                   wrapUpAsked, answered, toolVars, graphVars>>

\* lines 1667-1691: the follow-up request after a batch
OpenaiFollowUp ==
    /\ pc = "openaiTurn"
    /\ tpc = "dispatch"
    /\ callIdx > Len(functionCalls)
    /\ LET usedTerminateTool ==
               \E i \in 1..Len(functionCalls) : functionCalls[i] = "terminate_dialog"
       IN extraInstruction' =
               IF usedTerminateTool THEN TERMINATE_ADD_PROMPT
               ELSE IF hushFinish THEN NO_ADD_PROMPT ELSE DEFAULT_ADD_PROMPT
    /\ apiCalls' = apiCalls + 1
    /\ \E r \in OpenaiResponses(CallsLeft) :
         /\ answered' = r.kind
         /\ openaiOutput(r, log)
    /\ UNCHANGED <<startingSide, hushFinish, finishTurnCount, started,
                   terminationAccepted, shouldExit, hasRun, pc, dispatched,
                   abortRan, hushAt, terminateAt,
                   finishAgain,
                   wrapUpAsked, toolVars, graphVars>>

(***************************************************************************)
(* #anthropicTurn                                                          *)
(***************************************************************************)
\* lines 1817-1822: the catch block
anthropicCatch(exit, e, l) ==
    /\ caught' = e
    /\ tpc' = "returned"
    /\ log' = l
    /\ IF exit
       THEN UNCHANGED <<messages, anthropicFailureCount>>
       ELSE /\ anthropicFailureCount' = anthropicFailureCount + 1
            /\ messages' = Append(messages, err("anthropic"))
    /\ functionCalls' = <<>>
    /\ callIdx' = 1
    /\ UNCHANGED <<openaiFailureCount, toolCalls>>

\* lines 1730-1786: one request of the loop and what its response leads to
anthropicRequest(instruction) ==
    /\ extraInstruction' = instruction
    /\ wrapUpAsked' = IF instruction = TOKEN_LIMIT_ADD_PROMPT
                       THEN wrapUpAsked \cup {"anthropic"} ELSE wrapUpAsked
    /\ apiCalls' = apiCalls + 1
    /\ \E r \in Responses(CallsLeft) :
         /\ answered' = r.kind
         /\ IF r.kind = "throw"
            THEN /\ anthropicCatch(shouldExit, "vendor", log)
                 /\ UNCHANGED <<hushFinish, hushAt>>
            ELSE \E over \in BOOLEAN :
                   /\ hushFinish' = (hushFinish \/ over)
                   /\ hushAt' = IF ~hushFinish /\ over THEN Len(messages) ELSE hushAt
                   /\ log' = Log(log, ThinkingName("anthropic"), "thinking")
                   /\ CASE r.kind = "empty" ->
                             /\ messages' = Append(messages,
                                     [name |-> "anthropic", content |-> ""])
                             /\ tpc' = "returned"
                             /\ functionCalls' = <<>>
                             /\ callIdx' = 1
                             /\ UNCHANGED <<failVars, toolCalls, caught>>
                        [] r.kind = "calls" ->
                             /\ functionCalls' = r.calls
                             /\ callIdx' = 1
                             /\ toolCalls' = toolCalls + Len(r.calls)
                             /\ tpc' = "dispatch"
                             /\ UNCHANGED <<messages, failVars, caught>>
                        [] OTHER ->
                             /\ messages' = Append(messages,
                                     [name |-> "anthropic", content |-> OutputText(r.kind)])
                             /\ tpc' = "returned"
                             /\ functionCalls' = <<>>
                             /\ callIdx' = 1
                             /\ UNCHANGED <<failVars, toolCalls, caught>>

\* lines 1718-1732: entry of the turn and its first request
AnthropicRequest ==
    /\ pc = "anthropicTurn"
    /\ tpc = "start"
    /\ ~shouldExit
    /\ anthropicRequest(IF hushFinish THEN TOKEN_LIMIT_ADD_PROMPT ELSE DEFAULT_ADD_PROMPT)
    /\ UNCHANGED <<startingSide, finishTurnCount, started, terminationAccepted,
                   shouldExit, hasRun, pc, dispatched, abortRan, terminateAt,
                   finishAgain,
                   toolVars, graphVars>>

\* lines 1791-1806: one tool_use block of the batch
AnthropicDispatch ==
    /\ pc = "anthropicTurn"
    /\ tpc = "dispatch"
    /\ callIdx <= Len(functionCalls)
    /\ LET name == functionCalls[callIdx]
           l1 == logToolEvent(log, "anthropic", "call", name)
           l2 == logToolEvent(l1, "anthropic", "result", name)
       IN CASE ~findTool(name) ->
                 /\ anthropicCatch(shouldExit, "unknown_tool", log)
                 /\ UNCHANGED <<terminationAccepted, shouldExit, dispatched,
                                abortRan, terminateAt>>
            [] name = "terminate_dialog" ->
                 /\ terminationAccepted' = terminateDialogHandler(terminationAccepted)
                 /\ terminateAt' = IF terminateAt = 0 THEN Len(messages) ELSE terminateAt
                 /\ dispatched' = dispatched + 1
                 /\ log' = l2
                 /\ callIdx' = callIdx + 1
                 /\ UNCHANGED <<messages, failVars, functionCalls, toolCalls,
                                tpc, caught, shouldExit, abortRan>>
            [] name = "abort_process" ->
                 /\ shouldExit' = abortProcessHandler(shouldExit)
                 /\ abortRan' = TRUE
                 /\ dispatched' = dispatched + 1
                 /\ anthropicCatch(shouldExit', "abort", l1)
                 /\ UNCHANGED <<terminationAccepted, terminateAt>>
            [] OTHER ->
                 /\ dispatched' = dispatched + 1
                 /\ \E outcome \in HandlerOutcomes :
                      IF outcome = "returns"
                      THEN /\ log' = l2
                           /\ callIdx' = callIdx + 1
                           /\ UNCHANGED <<messages, failVars, functionCalls,
                                          toolCalls, tpc, caught>>
                      ELSE anthropicCatch(shouldExit, "tool", l1)
                 /\ UNCHANGED <<terminationAccepted, shouldExit, abortRan,
                                terminateAt>>
    /\ UNCHANGED <<startingSide, hushFinish, finishTurnCount, started, hasRun,
                   pc, extraInstruction, apiCalls, hushAt,
                   finishAgain,
                   wrapUpAsked, answered, toolVars, graphVars>>

\* lines 1808-1816 and the next pass of the loop
AnthropicFollowUp ==
    /\ pc = "anthropicTurn"
    /\ tpc = "dispatch"
    /\ callIdx > Len(functionCalls)
    /\ LET terminateCalled ==
               \E i \in 1..Len(functionCalls) : functionCalls[i] = "terminate_dialog"
       IN anthropicRequest(IF terminateCalled THEN TERMINATE_ADD_PROMPT
                           ELSE IF hushFinish THEN TOKEN_LIMIT_ADD_PROMPT
                           ELSE DEFAULT_ADD_PROMPT)
    /\ UNCHANGED <<startingSide, finishTurnCount, started, terminationAccepted,
                   shouldExit, hasRun, pc, dispatched, abortRan, terminateAt,
                   finishAgain,
                   toolVars, graphVars>>

(***************************************************************************)
(* #finish after its head: the postprocessing chain and the EOF record.    *)
(***************************************************************************)
\* the fields of the EOF record that depend on the run (lines 1858-1869)
EofRecord ==
    [reason |-> IF hushFinish THEN "token_limit" ELSE "model_decision",
     openai_failures |-> openaiFailureCount,
     anthropic_failures |-> anthropicFailureCount,
     starting_side |-> startingSide]

\* a catch block that swallows the failure without a record
postprocCatchSilent(l) == l

\* lines 1854-1856: the catch block of the postprocessing chain
postprocCatch(l) == Log(l, "POSTPROC_ERROR", "error")

\* an EOF record followed by one more record about the rendering
finishEOFThenRecord(l) ==
    /\ log' = Log(Log(l, "EOF", EofRecord), "POSTPROC_HTML", "rendered")
    /\ pc' = "done"

\* lines 1858-1875: the EOF record closes the log; #finish and #run return
finishEOF(l) ==
    /\ log' = Log(l, "EOF", EofRecord)
    /\ pc' = "done"

finishFrame ==
    UNCHANGED <<startingSide, messages, hushFinish, finishTurnCount, started,
                terminationAccepted, shouldExit, hasRun, failVars, tpc,
                batchVars, extraInstruction, caught, dispatched, toolCalls,
                abortRan, hushAt, terminateAt, finishAgain,
                   wrapUpAsked, answered, toolVars, graphVars>>

\* lines 1846-1847: #summarizeConversation returns or throws
FinishSummarize ==
    /\ pc = "finish_summary"
    /\ apiCalls' = apiCalls + 1
    /\ \E ok \in BOOLEAN :
         IF ok
         THEN /\ log' = Log(log, "POSTPROC_SUMMARY", "summary")
              /\ pc' = "finish_graph"
         ELSE finishEOF(postprocCatch(log))
    /\ finishFrame

\* lines 1849-1850: #extractGraphFromSummary returns or throws
FinishExtractGraph ==
    /\ pc = "finish_graph"
    /\ apiCalls' = apiCalls + 1
    /\ \E ok \in BOOLEAN :
         IF ok
         THEN /\ log' = Log(log, "POSTPROC_GRAPH", "graph")
              /\ pc' = "finish_neo4j"
         ELSE finishEOF(postprocCatch(log))
    /\ finishFrame

\* lines 1852-1853: #writeGraphToNeo4j returns or throws; the rest of #finish
FinishWriteGraph ==
    /\ pc = "finish_neo4j"
    /\ \E ok \in BOOLEAN :
         IF ok
         THEN finishEOF(Log(log, "POSTPROC_NEO4J", "Graph written to Neo4j"))
         ELSE finishEOF(postprocCatch(log))
    /\ UNCHANGED apiCalls
    /\ finishFrame

\* #finish invoked once more while the exit flag is set: the guard of lines
\* 1834-1836 decides what it does.  #run returns after its one call (lines
\* 655 and 677), so this is the second call the guard is written for.
FinishAgain ==
    /\ shouldExit
    /\ finishAgain < MaxFinishAgain
    /\ finishAgain' = finishAgain + 1
    /\ finish(log, pc)
    /\ UNCHANGED <<startingSide, messages, hushFinish, finishTurnCount, started,
                   terminationAccepted, hasRun, failVars, tpc, batchVars,
                   extraInstruction, caught, apiCalls, dispatched, toolCalls,
                   abortRan, hushAt, terminateAt,
                   wrapUpAsked, answered, toolVars, graphVars>>

Next ==
    \/ Run
    \/ RunLoop
    \/ OpenaiRequest
    \/ OpenaiDispatch
    \/ OpenaiFollowUp
    \/ AfterOpenaiTurn
    \/ SleepOpenai
    \/ AnthropicRequest
    \/ AnthropicDispatch
    \/ AnthropicFollowUp
    \/ AfterAnthropicTurn
    \/ SleepAnthropic
    \/ FinishSummarize
    \/ FinishExtractGraph
    \/ FinishWriteGraph
    \/ FinishAgain

Spec == Init /\ [][Next]_vars

\* the steps #run, the executors and #finish take by themselves: each is the
\* return of the call the program is awaiting (a vendor request, a handler,
\* the pacing sleep, a postprocessing call)
RunStep ==
    \/ Run
    \/ RunLoop
    \/ OpenaiRequest
    \/ OpenaiDispatch
    \/ OpenaiFollowUp
    \/ AfterOpenaiTurn
    \/ SleepOpenai
    \/ AnthropicRequest
    \/ AnthropicDispatch
    \/ AnthropicFollowUp
    \/ AfterAnthropicTurn
    \/ SleepAnthropic
    \/ FinishSummarize
    \/ FinishExtractGraph
    \/ FinishWriteGraph

\* the run under the assumption that every awaited call returns: the
\* single-threaded program then takes its next step.  A turn has finitely
\* many rounds of tool calls because MaxEvents bounds them.
LiveSpec == Init /\ [][Next]_vars /\ WF_vars(RunStep)

(***************************************************************************)
(* The data-file handlers: personal notes and the proposal / agreement     *)
(* protocol for the shared additional system instructions.  A turn         *)
(* executor awaits each handler before it dispatches the next call, so an  *)
(* invocation is one step; `modelSide` is the side the executor passes.    *)
(***************************************************************************)
\* the file operations an invocation may perform; each succeeds or fails
IoOps == {"readPending", "writePending", "readOwn", "writeOwn",
          "readAnthropic", "writeAnthropic", "readOpenai", "writeOpenai"}
\* the outcomes of the operations a handler performs
IoOutcomes(ops) == [ops -> BOOLEAN]

\* one of the given operations failed
Failed(io, ops) == \E op \in ops : ~io[op]

\* the record of an invocation: the call, its result, whether one of its
\* file operations failed, and the pending file as the call found it
Call(tool, modelSide, arg, success, value, ioFailed) ==
    [tool |-> tool, modelSide |-> modelSide, arg |-> arg,
     success |-> success, value |-> value, ioFailed |-> ioFailed,
     pendingBefore |-> pendingFile]

\* part of every handler step: the bound, the count, the orchestrator's
\* state left alone
handlerFrame ==
    /\ handlerCalls < MaxHandlerCalls
    /\ handlerCalls' = handlerCalls + 1
    /\ UNCHANGED runVars
    /\ UNCHANGED graphVars

\* lines 2204-2207: #getPersonalNotes
GetPersonalNotes ==
    /\ handlerFrame
    /\ \E modelSide \in ModelSide, io \in IoOutcomes({"readOwn"}) :
         LET data == readModelDataFromDir(modelData, modelSide, io["readOwn"])
         IN toolCall' = Call("get_personal_notes", modelSide, "", TRUE,
                             data.personalNotes, Failed(io, {"readOwn"}))
    /\ UNCHANGED <<modelData, pendingFile>>

\* lines 2209-2218: #setPersonalNotes
SetPersonalNotes ==
    /\ handlerFrame
    /\ \E modelSide \in ModelSide, notes \in NoteArgs,
          io \in IoOutcomes({"readOwn", "writeOwn"}) :
         LET data == readModelDataFromDir(modelData, modelSide, io["readOwn"])
             written == [data EXCEPT !.personalNotes = notes]
         IN /\ modelData' = writeModelDataToDir(modelData, modelSide, written,
                                                io["writeOwn"])
            /\ toolCall' = Call("set_personal_notes", modelSide, notes, TRUE,
                                "", Failed(io, {"readOwn", "writeOwn"}))
    /\ UNCHANGED pendingFile

\* lines 2220-2223: #getAdditionalSystemInstructions
GetAdditionalSystemInstructions ==
    /\ handlerFrame
    /\ \E modelSide \in ModelSide, io \in IoOutcomes({"readOwn"}) :
         LET data == readModelDataFromDir(modelData, modelSide, io["readOwn"])
         IN toolCall' = Call("get_additional_system_instructions", modelSide,
                             "", TRUE, data.additionalSystemInstructions,
                             Failed(io, {"readOwn"}))
    /\ UNCHANGED <<modelData, pendingFile>>

\* a test that turns away the side whose own proposal is pending
proposalBlockedForProposer(existingPending, modelSide) ==
    existingPending # NoPending /\ existingPending.requestedBy = modelSide

\* line 2235: a proposal of the other side is awaiting agreement
proposalBlocked(existingPending, modelSide) ==
    existingPending # NoPending /\ existingPending.requestedBy # modelSide

\* a proposal attributed to the side that did not make it
pendingProposalOfOtherSide(instructions, modelSide) ==
    [instructions |-> instructions, requestedBy |-> OtherSide(modelSide)]

\* lines 2241-2245: the proposal written to the pending file (createdAt is
\* never read back by a handler)
pendingProposal(instructions, modelSide) ==
    [instructions |-> instructions, requestedBy |-> modelSide]

\* lines 2225-2258: #setAdditionalSystemInstructions
SetAdditionalSystemInstructions ==
    /\ handlerFrame
    /\ \E modelSide \in ModelSide, instructions \in InstructionArgs,
          io \in IoOutcomes({"readPending", "writePending"}) :
         LET tool == "set_additional_system_instructions"
             existingPending ==
                 readPendingSystemInstructionsFromFile(pendingFile, io["readPending"])
             pending == pendingProposal(instructions, modelSide)
             written == writePendingSystemInstructionsToFile(
                            pendingFile, pending, io["writePending"])
         IN IF instructions = ""
            THEN /\ toolCall' = Call(tool, modelSide, instructions, FALSE, "", FALSE)
                 /\ UNCHANGED pendingFile
            ELSE IF proposalBlocked(existingPending, modelSide)
            THEN /\ toolCall' = Call(tool, modelSide, instructions, FALSE, "",
                                     Failed(io, {"readPending"}))
                 /\ UNCHANGED pendingFile
            ELSE /\ pendingFile' = written.file
                 /\ toolCall' = Call(tool, modelSide, instructions,
                                     ~written.threw, "",
                                     Failed(io, {"readPending", "writePending"}))
    /\ UNCHANGED modelData

\* lines 1899-1906: #commitSystemInstructions, the files afterwards
commitSystemInstructions(files, instructions, io) ==
    LET anthropicData ==
            [readModelDataFromDir(files, "anthropic", io["readAnthropic"])
                EXCEPT !.additionalSystemInstructions = instructions]
        files1 == writeModelDataToDir(files, "anthropic", anthropicData,
                                      io["writeAnthropic"])
        openaiData ==
            [readModelDataFromDir(files1, "openai", io["readOpenai"])
                EXCEPT !.additionalSystemInstructions = instructions]
    IN writeModelDataToDir(files1, "openai", openaiData, io["writeOpenai"])

\* a test that lets the proposer agree to its own proposal
agreeRefusedNever(pending, modelSide) == FALSE

\* line 2268: the proposer may not agree to its own proposal
agreeRefused(pending, modelSide) == pending.requestedBy = modelSide

\* lines 2260-2287: #agreeToSystemInstructionsChange
AgreeToSystemInstructionsChange ==
    /\ handlerFrame
    /\ \E modelSide \in ModelSide,
          io \in IoOutcomes(IoOps \ {"readOwn", "writeOwn"}) :
         LET tool == "agree_to_system_instructions_change"
             pending ==
                 readPendingSystemInstructionsFromFile(pendingFile, io["readPending"])
             cleared == writePendingSystemInstructionsToFile(
                            pendingFile, NoPending, io["writePending"])
         IN IF pending = NoPending \/ agreeRefused(pending, modelSide)
            THEN /\ toolCall' = Call(tool, modelSide, "", FALSE, "",
                                     Failed(io, {"readPending"}))
                 /\ UNCHANGED <<modelData, pendingFile>>
            ELSE /\ modelData' = commitSystemInstructions(
                                     modelData, pending.instructions, io)
                 /\ pendingFile' = cleared.file
                 /\ toolCall' = Call(tool, modelSide, "", ~cleared.threw, "",
                                     Failed(io, IoOps \ {"readOwn", "writeOwn"}))

\* any sequence of handler invocations by either side
ToolNext ==
    \/ GetPersonalNotes
    \/ SetPersonalNotes
    \/ GetAdditionalSystemInstructions
    \/ SetAdditionalSystemInstructions
    \/ AgreeToSystemInstructionsChange

ToolSpec == Init /\ [][ToolNext]_vars

(***************************************************************************)
(* The graph write of successive runs against one graph store.  The        *)
(* queries of a call run one after the other, each in its own transaction; *)
(* a query that fails ends the call, and what the earlier queries wrote    *)
(* stays.                                                                  *)
(***************************************************************************)
\* what randomBytes(12) may return in a write under the given run id: twelve
\* random bytes do not repeat an id the store already holds
FreshRandomIds(runId) ==
    {r \in RandomIds : \A n \in store.nodes : n.id # runId \o ":" \o r}

\* lines 704-796: #writeGraphToNeo4j.  `failAt` is the query that fails;
\* 0: none fails; one more than the number of queries: session.close fails.
WriteGraphToNeo4j ==
    /\ graphWrites < MaxGraphWrites
    /\ graphWrites' = graphWrites + 1
    /\ \E runId \in RunIds, graph \in Graphs :
       \E random \in IF \E i \in 1..Len(graph.nodes) : IsBlankId(graph.nodes[i].id)
                     THEN FreshRandomIds(runId) ELSE {""} :
         LET rnd == [rawId \in {id \in LocalIds : IsBlankId(id)} |-> random]
             queries == writeQueries(runId, graph, rnd)
         IN \E failAt \in 0..(Len(queries) + 1) :
              LET done == IF failAt = 0 THEN Len(queries) ELSE failAt - 1
              IN /\ store' = runQueries(store, runId, queries, done)
                 /\ lastWrite' =
                      [runId |-> runId, graph |-> graph,
                       rnd |-> random,
                       threw |-> failAt # 0,
                       written |-> done = Len(queries),
                       again |-> /\ lastWrite.written
                                 /\ lastWrite.runId = runId
                                 /\ lastWrite.graph = graph]
    /\ UNCHANGED <<runVars, toolVars, ragCall>>

GraphNext == WriteGraphToNeo4j

GraphSpec == Init /\ [][GraphNext]_vars

(***************************************************************************)
(* The retrieval handlers graph_rag_query and graph_rag_focus_node.  What  *)
(* the graph store and the condensing vendor call answer is theirs to      *)
(* choose: each query and the vendor call may fail.                        *)
(***************************************************************************)
\* the characters of a query: a letter, two characters of the separator
\* class /[、，。．\s／\/・,\.]+/, and a character outside the basic plane
QueryChars == {"a", ",", " ", "ASTRAL"}

\* the separator class of the split
IsSeparator(c) == c \in {",", " "}

\* String.prototype.length of a character, in UTF-16 code units
CodeUnits(c) == IF c = "ASTRAL" THEN 2 ELSE 1

\* String.prototype.length of a token
RECURSIVE length(_)
length(t) == IF t = <<>> THEN 0 ELSE CodeUnits(t[1]) + length(Tail(t))

\* the query texts: `args.query ?? ''`
RECURSIVE QueriesOfLen(_)
QueriesOfLen(n) ==
    IF n = 0 THEN {<<>>}
    ELSE {Append(q, c) : q \in QueriesOfLen(n - 1), c \in QueryChars}

Queries == UNION {QueriesOfLen(n) : n \in 0..MaxQueryLen}

\* lines 1916-1919: split on the separator class, trim, drop the empty
\* tokens; `token` is the token being read
RECURSIVE rawTerms(_, _)
rawTerms(text, token) ==
    IF text = <<>> THEN (IF token = <<>> THEN {} ELSE {token})
    ELSE IF IsSeparator(text[1])
    THEN (IF token = <<>> THEN {} ELSE {token}) \cup rawTerms(Tail(text), <<>>)
    ELSE rawTerms(Tail(text), Append(token, text[1]))

\* a filter that keeps the tokens of one code unit
isSearchTermAnyLength(t) == length(t) >= 1

\* line 1921: `t.length >= 2`
isSearchTerm(t) == length(t) >= 2

\* line 1921: the deduplicated tokens that are long enough
searchTerms(query) == {t \in rawTerms(query, <<>>) : isSearchTerm(t)}

\* the node ids a graph_rag_focus_node call may name
NodeIdArgs == {"", " ", "20250101-000000:n1"}

\* `(args.node_id ?? '').trim()`
trimNodeId(nodeId) == IF nodeId = " " THEN "" ELSE nodeId

\* what a query of the graph store may do: fail, return no record, or
\* return records
StoreAnswers == {"fails", "none", "found"}

\* the subgraphs an expansion may return
Subgraphs ==
    {[nodes |-> <<"20250101-000000:n1">>, rels |-> <<>>],
     [nodes |-> <<"20250101-000000:n1", "20250101-000001:n1">>,
      rels |-> <<<<"20250101-000000:n1", "SUPPORTS", "20250101-000001:n1">>>>]}

\* what the condensing vendor call may do: fail, answer without text, answer
\* white space only, or answer a text
CondenseAnswers == {"fails", "empty", "blank", "text"}

\* lines 2004-2037: the rendered listing of nodes and relationships
graphText(tool, arg, subgraph) ==
    [kind |-> "raw", tool |-> tool, about |-> arg,
     nodes |-> subgraph.nodes, rels |-> subgraph.rels]

\* lines 2039-2069 and 2174-2198: the condensed text, or the rendered
\* listing when the vendor call fails or answers no text
condensed(answer, raw) ==
    IF answer = "text" THEN [kind |-> "condensed", text |-> answer] ELSE raw

\* a handler got its arguments and opened its session; the early returns of
\* lines 1922-1926 and 2078-2080 come before the `try` and leave the session
\* open
RagBegin(tool, arg, early, context) ==
    /\ ragCall.stage = "idle"
    /\ ragCall' = [tool |-> tool, arg |-> arg,
                   stage |-> IF early THEN "done" ELSE "seed",
                   outcome |-> IF early THEN "returned" ELSE "running",
                   context |-> IF early THEN context ELSE [kind |-> "none"],
                   storeQueries |-> 0, condense |-> "not_asked",
                   session |-> "open"]
    /\ UNCHANGED <<runVars, toolVars, store, lastWrite, graphWrites>>

\* lines 1908-1926: #graphRagQueryHandler up to the seed query
GraphRagQuery ==
    \E query \in Queries :
        RagBegin("graph_rag_query", query, searchTerms(query) = {},
                 [kind |-> "no_terms", about |-> query])

\* lines 2075-2082: #graphRagFocusNodeHandler up to the seed query
GraphRagFocusNode ==
    \E node_id \in NodeIdArgs :
        RagBegin("graph_rag_focus_node", trimNodeId(node_id),
                 trimNodeId(node_id) = "", [kind |-> "no_node_id"])

\* lines 1929-1947 and 2085-2094: the seed query; it fails, finds nothing,
\* or finds seeds
SeedQuery ==
    /\ ragCall.stage = "seed"
    /\ \E answer \in StoreAnswers :
         ragCall' =
            CASE answer = "fails" ->
                   [ragCall EXCEPT !.stage = "close", !.outcome = "throwing",
                                   !.storeQueries = @ + 1]
              [] answer = "none" ->
                   [ragCall EXCEPT !.stage = "close", !.outcome = "returning",
                                   !.storeQueries = @ + 1,
                                   !.context = [kind |-> "no_seed", about |-> ragCall.arg]]
              [] answer = "found" ->
                   [ragCall EXCEPT !.stage = "expand", !.storeQueries = @ + 1]
    /\ UNCHANGED <<runVars, toolVars, store, lastWrite, graphWrites>>

\* lines 1956-2027 and 2096-2169: the expansion and the rendering
ExpandQuery ==
    /\ ragCall.stage = "expand"
    /\ \/ ragCall' = [ragCall EXCEPT !.stage = "close", !.outcome = "throwing",
                                     !.storeQueries = @ + 1]
       \/ ragCall' = [ragCall EXCEPT !.stage = "close", !.outcome = "returning",
                                     !.storeQueries = @ + 1,
                                     !.context = [kind |-> "no_subgraph",
                                                  about |-> ragCall.arg]]
       \/ \E subgraph \in Subgraphs :
            ragCall' = [ragCall EXCEPT !.stage = "condense",
                                       !.storeQueries = @ + 1,
                                       !.context = graphText(ragCall.tool, ragCall.arg,
                                                             subgraph)]
    /\ UNCHANGED <<runVars, toolVars, store, lastWrite, graphWrites>>

\* lines 2029-2068 and 2171-2197: the condensing vendor call
Condense ==
    /\ ragCall.stage = "condense"
    /\ \E answer \in CondenseAnswers :
         ragCall' = [ragCall EXCEPT !.stage = "close", !.outcome = "returning",
                                    !.condense = answer,
                                    !.context = condensed(answer, ragCall.context)]
    /\ UNCHANGED <<runVars, toolVars, store, lastWrite, graphWrites>>

\* lines 2069-2071 and 2198-2200: `finally { await session.close() }`; a
\* close that fails replaces the return by a throw
CloseSession ==
    /\ ragCall.stage = "close"
    /\ \E closes \in BOOLEAN :
         ragCall' =
            IF closes /\ ragCall.outcome = "returning"
            THEN [ragCall EXCEPT !.stage = "done", !.outcome = "returned",
                                 !.session = "closed"]
            ELSE [ragCall EXCEPT !.stage = "done", !.outcome = "threw",
                                 !.context = [kind |-> "none"],
                                 !.session = IF closes THEN "closed"
                                             ELSE "close_failed"]
    /\ UNCHANGED <<runVars, toolVars, store, lastWrite, graphWrites>>

\* lines 1658 and 1795: the turn executor takes the result, or catches
RagReturn ==
    /\ ragCall.stage = "done"
    /\ ragCall' = NoRagCall
    /\ UNCHANGED <<runVars, toolVars, store, lastWrite, graphWrites>>

\* any sequence of retrieval calls
RagNext ==
    \/ GraphRagQuery
    \/ GraphRagFocusNode
    \/ SeedQuery
    \/ ExpandQuery
    \/ Condense
    \/ CloseSession
    \/ RagReturn

RagSpec == Init /\ [][RagNext]_vars

(***************************************************************************)
(* Type correctness.                                                       *)
(***************************************************************************)
TypeOK ==
    /\ startingSide \in ModelSide
    /\ \A i \in 1..Len(messages) : messages[i].name \in ModelSide
    /\ hushFinish \in BOOLEAN
    /\ terminationAccepted \in BOOLEAN
    /\ shouldExit \in BOOLEAN
    /\ finishTurnCount \in 0..2
    /\ pc \in {"created", "loop", "openaiTurn", "sleepOpenai", "anthropicTurn",
               "sleepAnthropic", "finish_summary", "finish_graph",
               "finish_neo4j", "done"}
    /\ tpc \in {"idle", "start", "dispatch", "returned"}
    /\ wrapUpAsked \subseteq ModelSide
    /\ answered \in {"none", "calls"} \cup OpenaiFinalKinds
    /\ handlerCalls \in 0..MaxHandlerCalls
    /\ graphWrites \in 0..MaxGraphWrites
    /\ lastWrite.runId \in RunIds \cup {""}
    /\ lastWrite.graph \in Graphs \cup {NoWrite.graph}
    /\ store.runs \subseteq RunIds
    /\ \A n \in store.nodes :
          n.type \in NodeTypes /\ n.text \in Texts /\ n.original_id \in LocalIds
    /\ \A l \in store.links : \E c \in store.concepts : c.key = l[2]
    /\ ragCall.tool \in {"none", "graph_rag_query", "graph_rag_focus_node"}
    /\ ragCall.stage \in {"idle", "seed", "expand", "condense", "close", "done"}
    /\ ragCall.storeQueries \in 0..2
    /\ ragCall.condense \in CondenseAnswers \cup {"not_asked"}
    /\ ragCall.session \in {"none", "open", "closed", "close_failed"}
    /\ pendingFile.requestedBy \in ModelSide \cup {"none"}
    /\ pendingFile.instructions \in InstructionArgs
    /\ \A side \in ModelSide :
          /\ modelData[side].personalNotes \in NoteArgs
          /\ modelData[side].additionalSystemInstructions \in InstructionArgs

(***************************************************************************)
(* Vocabulary of the properties.                                           *)
(***************************************************************************)
InTurn == pc \in {"openaiTurn", "anthropicTurn"}

\* the side whose executor is running (meaningful when InTurn)
TurnSide == IF pc = "openaiTurn" THEN "openai" ELSE "anthropic"

\* the executor has not returned yet
Executing == InTurn /\ tpc \in {"start", "dispatch"}

SleepPcs == {"sleepOpenai", "sleepAnthropic"}
FinishPcs == {"finish_summary", "finish_graph", "finish_neo4j"}

\* number of log records with the given name
Count(name) == Cardinality({i \in 1..Len(log) : log[i].name = name})

\* #finish has written its closing remark
FinishStarted == Count(MODERATOR) >= 1

\* the side whose turn dispatched terminate_dialog (when terminateAt # 0)
TerminateBy == OtherSide(messages[terminateAt].name)

\* a step of an executor that returns without abort appends one message of
\* its own side; no other step touches the message sequence
OneMessagePerTurn ==
    IF Executing /\ tpc' = "returned"
    THEN IF abortRan'
         THEN messages' = messages
         ELSE /\ Len(messages') = Len(messages) + 1
              /\ SubSeq(messages', 1, Len(messages)) = messages
              /\ messages'[Len(messages')].name = TurnSide
    ELSE messages' = messages

\* a step in which the catch block catches an error other than the abort:
\* the placeholder of the side, and its failure counter plus one
ErrorGivesPlaceholder ==
    (Executing /\ caught' \notin {"none", "abort"}) =>
        /\ tpc' = "returned"
        /\ messages' = Append(messages,
               [name |-> TurnSide, content |-> PlaceholderText(TurnSide)])
        /\ IF TurnSide = "openai"
           THEN /\ openaiFailureCount' = openaiFailureCount + 1
                /\ anthropicFailureCount' = anthropicFailureCount
           ELSE /\ anthropicFailureCount' = anthropicFailureCount + 1
                /\ openaiFailureCount' = openaiFailureCount

\* the executor has returned after an error (not the abort)
ErrorTurnReturned == InTurn /\ tpc = "returned" /\ caught \notin {"none", "abort"}

\* C1 as stated: every executor invocation that abort_process does not
\* interrupt appends exactly one message of its own side; on an error the
\* message is the side's placeholder and the side's failure counter grows by
\* one; and after an error turn the loop goes on to the next turn.
C1_Original ==
    [][/\ OneMessagePerTurn
       /\ ErrorGivesPlaceholder
       /\ (ErrorTurnReturned => pc' \in SleepPcs)]_vars

\* C1 (amended): as C1, except that after an error turn the loop goes on as
\* after any completed turn: to the next turn, unless the termination
\* predicate (finishTurnCount >= 2 or terminationAccepted) holds, in which
\* case finishing starts; it never stops there.
C1_TurnAppendsOneMessage ==
    [][/\ OneMessagePerTurn
       /\ ErrorGivesPlaceholder
       /\ (ErrorTurnReturned =>
              IF finishTurnCount' >= 2 \/ terminationAccepted
              THEN pc' = "finish_summary"
              ELSE pc' \in SleepPcs)]_vars

\* an error turn has been logged and the loop is on its way to the next turn
C1_Witness ==
    /\ pc \in SleepPcs
    /\ Last(messages).content = PlaceholderText(Last(messages).name)
    /\ openaiFailureCount + anthropicFailureCount >= 1

\* C2: the seeded introduction is the starting side's, the first turn is the
\* other side's, and no two consecutive messages have the same speaker.
C2_Alternation ==
    /\ messages[1].name = startingSide
    /\ \A i \in 1..(Len(messages) - 1) :
          messages[i + 1].name = OtherSide(messages[i].name)

\* three turns were taken, a placeholder and an empty message among them
C2_Witness ==
    /\ Len(messages) >= 4
    /\ \E i \in 2..Len(messages) : messages[i].content = ""
    /\ \E i \in 2..Len(messages) :
          messages[i].content = PlaceholderText(messages[i].name)

\* what C3 says in every case: the flag is set, the dispatching turn's
\* message is the last one, and no turn of the other side is started
TerminateShortCircuits ==
    /\ terminationAccepted
    /\ Len(messages) <= terminateAt + 1
    /\ pc \notin SleepPcs \cup {"created", "loop"}
    /\ InTurn => TurnSide = TerminateBy
    /\ Len(messages) = terminateAt + 1 => Last(messages).name = TerminateBy

\* the dispatching turn has completed with one message and #finish has started
TurnCompletedAndFinishing ==
    /\ Len(messages) = terminateAt + 1
    /\ Count(MODERATOR) = 1

\* C3 as stated: once terminate_dialog is dispatched the flag is true, the
\* turn still completes with one message and finishing starts right after it;
\* no turn of the other side starts and no later message is appended.
C3_Original ==
    terminateAt # 0 =>
        /\ TerminateShortCircuits
        /\ ~InTurn => TurnCompletedAndFinishing

\* C3 (amended): the same, unless abort_process is dispatched later in the
\* same turn (then the turn appends no message and finishing never starts).
C3_TerminateShortCircuits ==
    terminateAt # 0 =>
        /\ TerminateShortCircuits
        /\ (~InTurn /\ ~abortRan) => TurnCompletedAndFinishing

\* terminate_dialog was dispatched, its turn completed, finishing has started
C3_Witness ==
    /\ terminateAt # 0
    /\ pc = "finish_summary"
    /\ Len(messages) = terminateAt + 1
    /\ ~hushFinish

\* the names of the "(tool call)" and "(tool result)" records
ToolCallNames == {ToolEventName(side, "call") : side \in ModelSide}
ToolResultNames == {ToolEventName(side, "result") : side \in ModelSide}

\* the turn in progress is the one that dispatched terminate_dialog
InTerminatingTurn == InTurn /\ Len(messages) = terminateAt

\* C4 as stated: once terminationAccepted is true no tool handler is
\* dispatched and no vendor request is made any more.
C4_Original ==
    [][terminationAccepted =>
          /\ dispatched' = dispatched
          /\ apiCalls' = apiCalls]_vars

\* C4 (amended): once terminationAccepted is true no further turn is
\* started; handlers are dispatched and turn requests made only in the rest
\* of the turn that dispatched terminate_dialog, and the only other vendor
\* requests are the summary and graph-extraction requests of #finish.
C4_NoTurnAfterTermination ==
    [][terminationAccepted =>
          /\ ~(tpc # "start" /\ tpc' = "start")
          /\ dispatched' # dispatched => InTerminatingTurn
          /\ apiCalls' # apiCalls =>
                \/ InTerminatingTurn
                \/ pc \in {"finish_summary", "finish_graph"}]_vars

\* after terminate_dialog returned, a further handler was dispatched in the
\* same turn, and #finish has made its summary request
C4_Witness ==
    /\ terminationAccepted
    /\ pc = "finish_graph"
    /\ \E i, j \in 1..Len(log) :
          /\ i < j
          /\ log[i].name \in ToolResultNames
          /\ log[i].text.tool = "terminate_dialog"
          /\ log[j].name \in ToolCallNames

\* C5: once hush is raised, and with neither terminate_dialog nor
\* abort_process, at most two turns complete after the turn that raised it;
\* finishing has then started, with finishTurnCount = 2, and the EOF record
\* gives the reason "token_limit".
C5_HushFinishesInTwoTurns ==
    (hushAt # 0 /\ terminateAt = 0 /\ ~abortRan) =>
        /\ Len(messages) <= hushAt + 3
        /\ Len(messages) = hushAt + 3 =>
              \/ InTurn /\ tpc = "returned"
              \/ pc \in FinishPcs \cup {"done"}
        /\ pc \in FinishPcs \cup {"done"} => finishTurnCount = 2
        /\ \A i \in 1..Len(log) :
              log[i].name = "EOF" => log[i].text.reason = "token_limit"

\* hush was raised in a turn, two further turns completed, the run finished
C5_Witness ==
    /\ hushAt # 0
    /\ terminateAt = 0
    /\ ~abortRan
    /\ Len(messages) = hushAt + 3
    /\ finishTurnCount = 2
    /\ pc = "done"
    /\ Last(log).name = "EOF"

\* the names of the records #finish writes
FinishRecordNames ==
    {MODERATOR, "POSTPROC_SUMMARY", "POSTPROC_GRAPH", "POSTPROC_NEO4J",
     "POSTPROC_ERROR", "EOF"}

\* C6: the step in which #abortProcessHandler runs appends no message and
\* changes no failure counter; after it no vendor request, tool dispatch,
\* message append or log write happens, the run only returns; and the log of
\* an aborted run holds no record of #finish.
C6_AbortStopsEverything ==
    [][/\ abortRan =>
             /\ apiCalls' = apiCalls
             /\ dispatched' = dispatched
             /\ messages' = messages
             /\ log' = log
             /\ failVars' = failVars
             /\ pc' \in {pc, "done"}
       /\ (~abortRan /\ abortRan') =>
             /\ messages' = messages
             /\ failVars' = failVars
             /\ apiCalls' = apiCalls
       /\ abortRan' =>
             \A i \in 1..Len(log') : log'[i].name \notin FinishRecordNames]_vars

\* abort_process ran in a turn that had already made a request, and the run
\* has returned
C6_Witness ==
    /\ abortRan
    /\ pc = "done"
    /\ apiCalls >= 1
    /\ Last(log).name \in ToolCallNames

\* C7: an invocation of #finish made after the exit flag is set writes
\* nothing and requests nothing, so the log never holds more than one closing
\* remark, summary, graph, graph-write or error record, or EOF record.
C7_FinishIdempotent ==
    [][/\ finishAgain' # finishAgain =>
             /\ log' = log
             /\ apiCalls' = apiCalls
             /\ pc' = pc
       /\ Count(MODERATOR)' <= 1
       /\ Count("POSTPROC_SUMMARY")' <= 1
       /\ Count("POSTPROC_GRAPH")' <= 1
       /\ (Count("POSTPROC_NEO4J") + Count("POSTPROC_ERROR"))' <= 1
       /\ Count("EOF")' <= 1]_vars

\* #finish was invoked again, and the finished run has its one EOF record
C7_Witness ==
    /\ finishAgain >= 1
    /\ pc = "done"
    /\ Count(MODERATOR) = 1
    /\ Count("EOF") = 1

\* C8: an EOF record is the last record of the log, and a run that reached
\* #finish and has returned ends with it.
C8_EofIsLast ==
    /\ \A i \in 1..Len(log) : log[i].name = "EOF" => i = Len(log)
    /\ (pc = "done" /\ FinishStarted) => Last(log).name = "EOF"

\* a run went through #finish, its graph was written, and it has returned
C8_Witness ==
    /\ pc = "done"
    /\ FinishStarted
    /\ Count("POSTPROC_NEO4J") = 1
    /\ Last(log).name = "EOF"

\* the names of the log records from the closing remark on
FinishNames ==
    LET k == CHOOSE i \in 1..Len(log) : log[i].name = MODERATOR
    IN [i \in 1..(Len(log) - k + 1) |-> log[k + i - 1].name]

\* C9: the records of #finish come in the order closing remark,
\* POSTPROC_SUMMARY, POSTPROC_GRAPH, then POSTPROC_NEO4J if all three steps
\* succeeded; a failing step writes POSTPROC_ERROR instead of its record and
\* the later steps are skipped; the EOF record always follows.
C9_PostprocOrder ==
    FinishStarted =>
        CASE pc = "finish_summary" -> FinishNames = <<MODERATOR>>
          [] pc = "finish_graph" ->
                FinishNames = <<MODERATOR, "POSTPROC_SUMMARY">>
          [] pc = "finish_neo4j" ->
                FinishNames = <<MODERATOR, "POSTPROC_SUMMARY", "POSTPROC_GRAPH">>
          [] OTHER ->
                /\ pc = "done"
                /\ FinishNames \in
                     {<<MODERATOR, "POSTPROC_SUMMARY", "POSTPROC_GRAPH",
                        "POSTPROC_NEO4J", "EOF">>,
                      <<MODERATOR, "POSTPROC_SUMMARY", "POSTPROC_GRAPH",
                        "POSTPROC_ERROR", "EOF">>,
                      <<MODERATOR, "POSTPROC_SUMMARY", "POSTPROC_ERROR", "EOF">>,
                      <<MODERATOR, "POSTPROC_ERROR", "EOF">>}

\* the graph extraction failed, and the EOF record was written all the same
C9_Witness ==
    /\ pc = "done"
    /\ FinishStarted
    /\ FinishNames = <<MODERATOR, "POSTPROC_SUMMARY", "POSTPROC_ERROR", "EOF">>

\* the messages of a side appended since terminate_dialog was dispatched
TurnsSinceTerminate(side) ==
    {i \in (terminateAt + 1)..Len(messages) : messages[i].name = side}

C11_BothSidesAskedToWrapUp ==
    (FinishStarted /\ hushAt # 0 /\ terminateAt = 0) =>
        /\ wrapUpAsked = ModelSide
        /\ \A side \in ModelSide :
              \E i \in (hushAt + 1)..Len(messages) : messages[i].name = side

\* hush was raised by a response of the Anthropic side, both sides then took
\* their wrap-up turn, and the run finished
C11_Witness ==
    /\ hushAt # 0
    /\ terminateAt = 0
    /\ Len(messages) = hushAt + 3
    /\ messages[hushAt + 1].name = "anthropic"
    /\ wrapUpAsked = ModelSide
    /\ pc = "done"
    /\ Count("EOF") = 1

\* the closing remarks and the EOF reasons found in the log
ClosingRemarks == {log[i].text : i \in {j \in 1..Len(log) : log[j].name = MODERATOR}}
EofReasons == {log[i].text.reason : i \in {j \in 1..Len(log) : log[j].name = "EOF"}}

\* C12 as stated: when finishing is triggered by terminate_dialog (the flag
\* is set and finishTurnCount has not reached 2) the closing remark has the
\* explicit-termination wording and the EOF reason is "model_decision"; the
\* reason is "token_limit" only when finishTurnCount reached 2.
C12_Original ==
    /\ (terminationAccepted /\ finishTurnCount < 2) =>
          /\ ClosingRemarks \subseteq {ClosingRemark(FALSE)}
          /\ EofReasons \subseteq {"model_decision"}
    /\ "token_limit" \in EofReasons => finishTurnCount >= 2

\* C13: the first message is the self-introduction of the starting side, in
\* every state of every run (so no turn changes or removes it), and the
\* first log record is its "(initial prompt)" record.
C13_FirstMessageIsIntroduction ==
    /\ Len(messages) >= 1
    /\ messages[1] = [name |-> startingSide,
                      content |-> SelfIntroduction(startingSide)]
    /\ log[1] = [name |-> InitialPromptName(startingSide),
                 text |-> SelfIntroduction(startingSide)]

\* a finished run with three turns after the self-introduction, one of them
\* a placeholder turn
C13_Witness ==
    /\ pc = "done"
    /\ Len(messages) >= 4
    /\ messages[1].name = startingSide
    /\ \E i \in 2..Len(messages) :
          messages[i].content = PlaceholderText(messages[i].name)

\* the step in which the executor of the turn in progress receives a
\* response of the given shape
Receives(kind) == Executing /\ apiCalls' = apiCalls + 1 /\ answered' = kind

\* the step appends the placeholder of the side and counts one failure for it
PlaceholderStep ==
    /\ messages' = Append(messages,
           [name |-> TurnSide, content |-> PlaceholderText(TurnSide)])
    /\ IF TurnSide = "openai"
       THEN /\ openaiFailureCount' = openaiFailureCount + 1
            /\ anthropicFailureCount' = anthropicFailureCount
       ELSE /\ anthropicFailureCount' = anthropicFailureCount + 1
            /\ openaiFailureCount' = openaiFailureCount

\* C14 as stated: in both executors a response without any usable output
\* (empty output array, no non-thinking block) is an error: the placeholder
\* is appended and the side's failure counter grows by one.
C14_Original ==
    [][Receives("empty") => PlaceholderStep]_vars

\* C14 (amended): in the OpenAI executor a response with an empty output
\* array is an error (placeholder, one failure counted); in the Anthropic
\* executor a response without a non-thinking block is not: the turn ends
\* with a message of empty content and no failure is counted.
C14_EmptyOutput ==
    [][Receives("empty") =>
          /\ tpc' = "returned"
          /\ IF pc = "openaiTurn"
             THEN caught' = "empty" /\ PlaceholderStep
             ELSE /\ caught' = "none"
                  /\ messages' = Append(messages,
                         [name |-> "anthropic", content |-> ""])
                  /\ openaiFailureCount' = openaiFailureCount
                  /\ anthropicFailureCount' = anthropicFailureCount]_vars

\* the OpenAI side has just received an empty output array and answered
\* with its placeholder, after a turn in which the Anthropic side appended
\* an empty message without a failure
C14_Witness ==
    /\ pc = "openaiTurn"
    /\ tpc = "returned"
    /\ answered = "empty"
    /\ caught = "empty"
    /\ Len(messages) >= 3
    /\ Last(messages) = [name |-> "openai", content |-> PlaceholderText("openai")]
    /\ messages[Len(messages) - 1] = [name |-> "anthropic", content |-> ""]
    /\ openaiFailureCount = 1
    /\ anthropicFailureCount = 0

\* the batch has a call left, and it names a tool the registry does not hold
UnknownToolNext ==
    /\ InTurn
    /\ tpc = "dispatch"
    /\ callIdx <= Len(functionCalls)
    /\ functionCalls[callIdx] \notin RegisteredTools

\* what C15 says of the failing turn: no handler is invoked, nothing is
\* logged for the call, the placeholder is appended, one failure is counted
UnknownToolFailsTurn ==
    UnknownToolNext =>
        /\ caught' = "unknown_tool"
        /\ tpc' = "returned"
        /\ dispatched' = dispatched
        /\ log' = log
        /\ PlaceholderStep

\* the executor has returned because of an unknown tool name
UnknownToolReturned == InTurn /\ tpc = "returned" /\ caught = "unknown_tool"

\* C15 as stated: an unknown tool name fails the turn (no handler invoked,
\* placeholder, one failure counted) and the run continues with the next turn.
C15_Original ==
    [][/\ UnknownToolFailsTurn
       /\ UnknownToolReturned => pc' \in SleepPcs]_vars

\* C15 (amended): an unknown tool name fails the turn (no handler invoked,
\* placeholder, one failure counted); the run then goes on as after any
\* completed turn: to the next turn, unless finishTurnCount reaches 2 or
\* terminate_dialog was dispatched earlier in the turn, in which case
\* finishing starts.
C15_UnknownToolFailsTurn ==
    [][/\ UnknownToolFailsTurn
       /\ UnknownToolReturned =>
             IF finishTurnCount' >= 2 \/ terminationAccepted
             THEN pc' = "finish_summary"
             ELSE pc' \in SleepPcs]_vars

\* a turn failed on an unknown tool name after a registered tool of the same
\* batch had been dispatched, and the loop is on its way to the next turn
C15_Witness ==
    /\ pc \in SleepPcs
    /\ dispatched >= 1
    /\ Last(messages).content = PlaceholderText(Last(messages).name)
    /\ Last(log).name = SpeakerName(Last(messages).name)
    /\ Len(log) >= 2
    /\ log[Len(log) - 1].name \in ToolResultNames
    /\ openaiFailureCount + anthropicFailureCount = 1
    /\ toolCalls = dispatched + 1

\* C16 as stated: in the OpenAI executor a final response that is a refusal
\* sets terminationAccepted, and one that merely has empty text does not.
C16_Original ==
    [][/\ (pc = "openaiTurn" /\ Receives("refusal")) => terminationAccepted'
       /\ (pc = "openaiTurn" /\ Receives("silence")) =>
             terminationAccepted' = terminationAccepted]_vars

\* C17: for either side, a final response whose text is the empty string
\* ends the turn with a message of that side with empty content, and no
\* failure is counted.
C17_SilenceIsAccepted ==
    [][Receives("silence") =>
          /\ tpc' = "returned"
          /\ caught' = "none"
          /\ messages' = Append(messages, [name |-> TurnSide, content |-> ""])
          /\ openaiFailureCount' = openaiFailureCount
          /\ anthropicFailureCount' = anthropicFailureCount]_vars

\* both sides have answered with empty text, the second of them just now,
\* and no failure has been counted
C17_Witness ==
    /\ InTurn
    /\ tpc = "returned"
    /\ answered = "silence"
    /\ Len(messages) >= 3
    /\ messages[Len(messages)].content = ""
    /\ messages[Len(messages) - 1].content = ""
    /\ openaiFailureCount + anthropicFailureCount = 0

(***************************************************************************)
(* C18 - C20: the proposal / agreement protocol (under ToolSpec).          *)
(***************************************************************************)
\* the step is an invocation of the named handler
HandlerStep(tool) == handlerCalls' = handlerCalls + 1 /\ toolCall'.tool = tool

\* the step is an invocation of set_additional_system_instructions by the
\* side whose own proposal is pending
ProposerProposesAgain ==
    /\ HandlerStep("set_additional_system_instructions")
    /\ pendingFile # NoPending
    /\ pendingFile.requestedBy = toolCall'.modelSide

C19_AgreeRefused ==
    [][(/\ HandlerStep("agree_to_system_instructions_change")
        /\ \/ pendingFile = NoPending
           \/ pendingFile.requestedBy = toolCall'.modelSide) =>
          /\ ~toolCall'.success
          /\ pendingFile' = pendingFile
          /\ modelData' = modelData]_vars

\* the proposer has just tried to agree to its own pending proposal: the
\* call failed, the proposal is still pending, no record holds it
C19_Witness ==
    /\ toolCall.tool = "agree_to_system_instructions_change"
    /\ ~toolCall.success
    /\ ~toolCall.ioFailed
    /\ pendingFile # NoPending
    /\ pendingFile.requestedBy = toolCall.modelSide
    /\ \A side \in ModelSide :
          modelData[side].additionalSystemInstructions # pendingFile.instructions

\* C20 as stated, read in its favour where a file operation fails:
\* agree_to_system_instructions_change invoked by the other side while a
\* proposal is pending returns success:true (it may return success:false
\* only if one of its file operations failed), and whenever it returns
\* success:true both participant records hold the proposal's instructions
\* afterwards and no proposal is pending.
C20_Original ==
    [][(/\ HandlerStep("agree_to_system_instructions_change")
        /\ pendingFile # NoPending
        /\ pendingFile.requestedBy # toolCall'.modelSide) =>
          /\ ~toolCall'.ioFailed => toolCall'.success
          /\ toolCall'.success =>
                /\ \A side \in ModelSide :
                      modelData'[side].additionalSystemInstructions
                          = pendingFile.instructions
                /\ pendingFile' = NoPending]_vars

(***************************************************************************)
(* C21.  Between handler invocations the two participant records hold the  *)
(* same additionalSystemInstructions.                                      *)
(***************************************************************************)
\* the persisted additional system instructions of a side
Committed(side) == modelData[side].additionalSystemInstructions

\* C21 as stated: after any sequence of handler invocations by either side,
\* starting from equal records, the two records' additionalSystemInstructions
\* are equal.
C21_Original == Committed("openai") = Committed("anthropic")

(***************************************************************************)
(* C22.  A proposal never touches the records; instructions are committed  *)
(* only by the agreement of the side that did not propose them.            *)
(***************************************************************************)
\* a record takes new, non-blank additional system instructions
CommitsTo(side) ==
    /\ Committed(side)' # Committed(side)
    /\ Committed(side)' # ""

\* C22: set_additional_system_instructions leaves both participant records
\* as they were, and whenever a record takes new instructions, the step is an
\* agree_to_system_instructions_change by the side other than the one the
\* pending file names as the proposer of exactly these instructions; the
\* pending file names the side whose proposal it took.
C22_CommitOnlyByOtherSide ==
    [][ /\ HandlerStep("set_additional_system_instructions")
            => /\ UNCHANGED modelData
               /\ pendingFile' # pendingFile
                    => pendingFile' = [instructions |-> toolCall'.arg,
                                       requestedBy |-> toolCall'.modelSide]
        /\ (~HandlerStep("set_additional_system_instructions"))
            => pendingFile' \in {pendingFile, NoPending}
        /\ \A side \in ModelSide :
              CommitsTo(side) =>
                /\ HandlerStep("agree_to_system_instructions_change")
                /\ toolCall'.pendingBefore.instructions = Committed(side)'
                /\ toolCall'.pendingBefore.requestedBy = OtherSide(toolCall'.modelSide)
      ]_vars

\* a proposal of openai was committed into both records by anthropic's
\* agreement
C22_Witness ==
    /\ toolCall.tool = "agree_to_system_instructions_change"
    /\ toolCall.modelSide = "anthropic"
    /\ toolCall.pendingBefore = [instructions |-> "inst_a", requestedBy |-> "openai"]
    /\ Committed("openai") = "inst_a"
    /\ Committed("anthropic") = "inst_a"
    /\ pendingFile = NoPending

(***************************************************************************)
(* C23.  A failing file operation makes the changing handlers answer       *)
(* success:false.                                                          *)
(***************************************************************************)
\* what the last invocation was asked to change is in the files
Persisted ==
    CASE toolCall.tool = "set_personal_notes" ->
           modelData[toolCall.modelSide].personalNotes = toolCall.arg
      [] toolCall.tool = "set_additional_system_instructions" ->
           pendingFile = pendingProposal(toolCall.arg, toolCall.modelSide)
      [] toolCall.tool = "agree_to_system_instructions_change" ->
           /\ \A side \in ModelSide :
                 Committed(side) = toolCall.pendingBefore.instructions
           /\ pendingFile = NoPending
      [] OTHER -> TRUE

\* C23 as stated, read in its favour: set_personal_notes,
\* set_additional_system_instructions and agree_to_system_instructions_change
\* never answer success:true for a change that is not in the files.
C23_Original == toolCall.success => Persisted

(***************************************************************************)
(* C24.  Personal notes: per side, overwritten by set, read back by get.   *)
(***************************************************************************)
\* C24 as stated: get_personal_notes by a side returns the notes of that
\* side's last set_personal_notes (the file always holds what the side set
\* last, and get returns what the file holds), and set_personal_notes leaves
\* the other side's notes alone.
C24_Original ==
    [][ /\ HandlerStep("set_personal_notes") =>
              /\ modelData'[toolCall'.modelSide].personalNotes = toolCall'.arg
              /\ modelData'[OtherSide(toolCall'.modelSide)].personalNotes
                     = modelData[OtherSide(toolCall'.modelSide)].personalNotes
        /\ HandlerStep("get_personal_notes") =>
              toolCall'.value = modelData[toolCall'.modelSide].personalNotes
        /\ (~HandlerStep("set_personal_notes")) =>
              \A side \in ModelSide :
                 modelData'[side].personalNotes = modelData[side].personalNotes
      ]_vars

(***************************************************************************)
(* C25.  Tool-call and tool-result records come in adjacent pairs.         *)
(***************************************************************************)
\* the record at position i is the given event of a tool call of the side
IsToolEvent(i, side, event) == log[i].name = ToolEventName(side, event)

\* the record at position i + 1 is the result of the call at position i
ResultFollows(i, side) ==
    /\ i < Len(log)
    /\ log[i + 1] = [name |-> ToolEventName(side, "result"), text |-> log[i].text]

\* the record at position i - 1 is the call of the result at position i
CallPrecedes(i, side) ==
    /\ i > 1
    /\ log[i - 1] = [name |-> ToolEventName(side, "call"), text |-> log[i].text]

\* C25 as stated: every tool-call record is immediately followed by the
\* tool-result record of the same actor and tool, and every tool-result
\* record is immediately preceded by its call record.
C25_Original ==
    \A i \in 1..Len(log) : \A side \in ModelSide :
        /\ IsToolEvent(i, side, "call") => ResultFollows(i, side)
        /\ IsToolEvent(i, side, "result") => CallPrecedes(i, side)

\* C25, amended: every tool-result record is immediately preceded by its
\* call record.  A tool-call record is immediately followed by its result
\* record unless the handler did not return: after abort_process the call
\* record is the last record of the log, and after a handler that threw the
\* next record is the placeholder utterance of the side whose turn failed.
C25_ResultPairsWithCall ==
    \A i \in 1..Len(log) : \A side \in ModelSide :
        /\ IsToolEvent(i, side, "result") => CallPrecedes(i, side)
        /\ IsToolEvent(i, side, "call") =>
              \/ ResultFollows(i, side)
              \/ /\ i < Len(log)
                 /\ log[i + 1] = [name |-> SpeakerName(side),
                                   text |-> PlaceholderText(side)]
              \/ /\ i = Len(log)
                 /\ \/ abortRan /\ log[i].text.tool = "abort_process"
                    \/ caught = "tool" /\ pc = IF side = "openai" THEN "openaiTurn" ELSE "anthropicTurn"

\* a handler returned and its pair was logged, then a later handler of the
\* same side threw and its call record is followed by the placeholder
C25_Witness ==
    \E i \in 1..Len(log) : \E side \in ModelSide :
        /\ IsToolEvent(i, side, "call") /\ ResultFollows(i, side)
        /\ \E j \in (i + 2)..(Len(log) - 1) :
              /\ IsToolEvent(j, side, "call")
              /\ log[j + 1] = [name |-> SpeakerName(side),
                                text |-> PlaceholderText(side)]

(***************************************************************************)
(* C26.  The names of the log records.                                     *)
(***************************************************************************)
\* the names the statement lists
ListedNames ==
    {SpeakerName(side) : side \in ModelSide}
    \cup {MODERATOR}
    \cup {"GPT 5.1 (tool call)", "Claude Haiku 4.5 (tool call)"}
    \cup {"GPT 5.1 (tool result)", "Claude Haiku 4.5 (tool result)"}
    \cup {"GPT 5.1 (thinking)", "Claude Haiku 4.5 (thinking)"}
    \cup {"POSTPROC_SUMMARY", "POSTPROC_GRAPH", "POSTPROC_NEO4J", "POSTPROC_ERROR", "EOF"}

\* C26 as stated: every record of the conversation log has one of the listed
\* names.
C26_Original == \A i \in 1..Len(log) : log[i].name \in ListedNames

\* C26, amended: the first record of the log is named
\* "<starting side's name> (initial prompt)", and every later record has one
\* of the listed names.
C26_LogNames ==
    /\ Len(log) >= 1
    /\ log[1].name = InitialPromptName(startingSide)
    /\ \A i \in 2..Len(log) : log[i].name \in ListedNames

\* a finished log in which utterances of both sides, a reasoning record, a
\* tool call with its result, the closing remark and a postprocessing record
\* all occur
C26_Witness ==
    /\ pc = "done"
    /\ Last(log).name = "EOF"
    /\ \A name \in {SpeakerName("openai"), SpeakerName("anthropic"), MODERATOR,
                     "POSTPROC_SUMMARY"} :
          \E i \in 2..Len(log) : log[i].name = name
    /\ \E i \in 2..Len(log) :
          log[i].name \in {"GPT 5.1 (thinking)", "Claude Haiku 4.5 (thinking)"}
    /\ \E i \in 2..Len(log), side \in ModelSide : IsToolEvent(i, side, "result")

(***************************************************************************)
(* C29.  Writing a graph a second time under the same run id.              *)
(***************************************************************************)
\* the step writes, completely, the graph the step before it wrote
\* completely, under the same run id
WritesAgain == graphWrites' = graphWrites + 1 /\ lastWrite'.written /\ lastWrite'.again

\* every node of the graph has a local id that is not blank
HasLocalIds(graph) ==
    \A i \in 1..Len(graph.nodes) : graph.nodes[i].id \notin {"", " "}

\* C29 as stated: writing the same graph under the same run id a second time
\* leaves exactly the Run, Node and Concept entities and the relationships
\* the first write left.
C29_Original == [][WritesAgain => store' = store]_vars

\* C29, amended: the second write leaves the store exactly as the first left
\* it when every node of the graph has a non-blank local id.  In any case it
\* leaves the Run and Concept entities and the stored nodes as they were; for
\* a node of blank local id it may add one more Node entity under a fresh
\* random id, with its links.
C29_IdempotentForLocalIds ==
    [][WritesAgain =>
         /\ HasLocalIds(lastWrite'.graph) => store' = store
         /\ store'.runs = store.runs
         /\ store'.concepts = store.concepts
         /\ store.nodes \subseteq store'.nodes
         /\ \A n \in store'.nodes \ store.nodes :
               /\ n.original_id \in {"", " "}
               /\ n.id = lastWrite'.runId \o ":" \o lastWrite'.rnd
      ]_vars

\* a graph of two nodes with local ids, its known edge included, was written
\* twice under one run id
C29_Witness ==
    /\ lastWrite.written /\ lastWrite.again
    /\ Len(lastWrite.graph.nodes) = 2
    /\ HasLocalIds(lastWrite.graph)
    /\ store.runs = {lastWrite.runId}
    /\ store.rels # {}
    /\ store.concepts # {}

(***************************************************************************)
(* C30.  Node identity is per run, Concept identity is across runs.        *)
(***************************************************************************)
\* the words of a text: its maximal runs of characters other than the space,
\* in lower case and in compatibility form
RECURSIVE WordsOf(_, _)
WordsOf(text, word) ==
    IF text = <<>> THEN (IF word = <<>> THEN <<>> ELSE <<word>>)
    ELSE IF text[1] = " "
    THEN (IF word = <<>> THEN <<>> ELSE <<word>>) \o WordsOf(Tail(text), <<>>)
    ELSE WordsOf(Tail(text),
                 Append(word, IF text[1] \in {"W", "FULLWIDTH_W"} THEN "w" ELSE text[1]))

\* two stored nodes have the same normalized (type, text) key
SameConceptKey(n, m) ==
    n.type = m.type /\ WordsOf(n.text, <<>>) = WordsOf(m.text, <<>>)

\* the Concept entities a stored node is linked to
ConceptsOf(n) == {c \in store.concepts : <<n.id, c.key>> \in store.links}

\* C30 as stated: a stored Node entity belongs to the one run that wrote it;
\* stored nodes with equal, non-empty normalized (type, text) keys are linked
\* to one shared Concept entity; a stored node with empty normalized text is
\* linked to no Concept.
C30_Original ==
    /\ \A n \in store.nodes :
          Cardinality({r \in store.runs : <<n.id, r>> \in store.inRun}) = 1
    /\ \A n, m \in store.nodes :
          (SameConceptKey(n, m) /\ WordsOf(n.text, <<>>) # <<>>) =>
             \E c \in store.concepts : c \in ConceptsOf(n) /\ c \in ConceptsOf(m)
    /\ \A n \in store.nodes :
          WordsOf(n.text, <<>>) = <<>> => ConceptsOf(n) = {}

(***************************************************************************)
(* C27.  The retrieval handlers never fail towards the turn executor.      *)
(***************************************************************************)
\* C27 as stated: whatever the graph store and the condensing vendor call
\* do, graph_rag_query and graph_rag_focus_node return a context, and the
\* context is the rendered listing whenever the condensation fails or gives
\* no text.
C27_Original ==
    ragCall.stage = "done" =>
        /\ ragCall.outcome = "returned"
        /\ ragCall.condense \in {"fails", "empty", "blank"} => ragCall.context.kind = "raw"

(***************************************************************************)
(* C28.  A query without a search term never reaches the graph store.      *)
(***************************************************************************)
\* the query has a token of at least two code units: two neighbouring
\* characters that are no separators, or one character of two code units
HasLongToken(query) ==
    \E i \in 1..Len(query) :
        /\ query[i] \notin {",", " "}
        /\ \/ query[i] = "ASTRAL"
           \/ i < Len(query) /\ query[i + 1] \notin {",", " "}

\* C28: graph_rag_query with a query that has no token of length 2 or more
\* returns the "no search terms" context and issues no query to the store.
C28_NoTermsNoStoreQuery ==
    (ragCall.tool = "graph_rag_query" /\ ~HasLongToken(ragCall.arg)) =>
        /\ ragCall.stage = "done"
        /\ ragCall.outcome = "returned"
        /\ ragCall.context = [kind |-> "no_terms", about |-> ragCall.arg]
        /\ ragCall.storeQueries = 0

\* a query of single letters between separators was answered without the
\* store
C28_Witness ==
    /\ ragCall.tool = "graph_rag_query"
    /\ ragCall.arg = <<"a", ",", "a">>
    /\ ragCall.context.kind = "no_terms"
    /\ ragCall.storeQueries = 0

\* C31: when abort_process is dispatched in a run whose terminationAccepted
\* flag or hush flag is set, the abort wins: the step sets the exit flag and
\* appends nothing, #finish is not entered afterwards, and the log holds no
\* closing remark, no postprocessing record and no EOF record.
C31_AbortWinsOverTermination ==
    [][/\ (~abortRan /\ abortRan' /\ (terminationAccepted' \/ hushFinish')) =>
             /\ shouldExit'
             /\ messages' = messages
             /\ pc' \notin FinishPcs
       /\ (abortRan /\ (terminationAccepted \/ hushFinish)) =>
             /\ pc' \in {pc, "done"}
             /\ \A i \in 1..Len(log') : log'[i].name \notin FinishRecordNames]_vars

\* abort_process ran in the batch in which terminate_dialog had run, in a
\* turn that had raised the hush flag, and the run has returned
C31_Witness ==
    /\ abortRan
    /\ terminationAccepted
    /\ hushFinish
    /\ terminateAt = Len(messages)
    /\ pc = "done"

(***************************************************************************)
(* C32.  While a side's proposal is pending, the other side cannot propose.*)
(***************************************************************************)
\* the step is an invocation of set_additional_system_instructions by the
\* side other than the one whose proposal is pending
OtherSideProposes ==
    /\ HandlerStep("set_additional_system_instructions")
    /\ pendingFile # NoPending
    /\ pendingFile.requestedBy = OtherSide(toolCall'.modelSide)

\* C32 as stated: while the proposal of a side is pending, a
\* set_additional_system_instructions by the other side returns
\* success:false and leaves the pending proposal unchanged, and the pending
\* file stops naming that side as the proposer only in a step that is an
\* agree_to_system_instructions_change by the other side.
C32_Original ==
    [][ /\ OtherSideProposes =>
              /\ ~toolCall'.success
              /\ pendingFile' = pendingFile
        /\ (pendingFile # NoPending
               /\ pendingFile'.requestedBy # pendingFile.requestedBy) =>
              /\ HandlerStep("agree_to_system_instructions_change")
              /\ toolCall'.modelSide = OtherSide(pendingFile.requestedBy)
      ]_vars

(***************************************************************************)
(* C33.  Within one graph write, different nodes become different Node     *)
(* entities (under GraphSpec).                                             *)
(***************************************************************************)
\* the Node entities of the run of the latest write that hold the given
\* node of the extracted graph
StoredAs(node) ==
    {n \in store.nodes :
        /\ <<n.id, lastWrite.runId>> \in store.inRun
        /\ n.original_id = node.id
        /\ n.text = node.text
        /\ n.type = node.type}

\* two nodes that the write may store as one entity: equal nodes, and nodes
\* of the same non-blank local id
MayShareEntity(n, m) == n = m \/ (n.id = m.id /\ n.id \notin {"", " "})

\* C33 as stated: after a graph write that ran all its queries, two
\* different nodes of the graph that do not have the same non-blank local id
\* are held by two different Node entities (so every node of blank local id
\* has an entity under its own random id), and every edge of a known type is
\* a relationship between the entities of the nodes that have its endpoints
\* as local ids.
C33_Original ==
    lastWrite.written =>
        LET nodes == lastWrite.graph.nodes
            edges == lastWrite.graph.edges
        IN /\ \A i, j \in 1..Len(nodes) :
                 (i # j /\ ~MayShareEntity(nodes[i], nodes[j])) =>
                     \E a \in StoredAs(nodes[i]), b \in StoredAs(nodes[j]) :
                        a.id # b.id
           /\ \A k \in 1..Len(edges) :
                 edges[k].type = "supports" =>
                     \E r \in store.rels :
                        /\ r[2] = "SUPPORTS"
                        /\ \E a, b \in store.nodes :
                              /\ a.id = r[1] /\ a.original_id = edges[k].source
                              /\ b.id = r[3] /\ b.original_id = edges[k].target

(***************************************************************************)
(* C34.  The request for the final utterance of a turn that dispatched     *)
(* terminate_dialog.                                                       *)
(***************************************************************************)
\* the executor has just returned from a turn that dispatched
\* terminate_dialog and then appended its utterance
TerminatingTurnAnswered ==
    /\ InTurn
    /\ tpc = "returned"
    /\ caught = "none"
    /\ terminateAt # 0
    /\ Len(messages) = terminateAt + 1

\* C34 as stated: in either executor, the request whose response gave the
\* final utterance of a turn that dispatched terminate_dialog carried
\* TERMINATE_ADD_PROMPT, whatever rounds of tool calls followed the round of
\* terminate_dialog.
C34_Original ==
    TerminatingTurnAnswered => extraInstruction = TERMINATE_ADD_PROMPT

(***************************************************************************)
(* C35.  A run that raised hush or dispatched terminate_dialog, and is not *)
(* aborted, ends with the EOF record (under LiveSpec).                     *)
(***************************************************************************)
\* the run has returned and the EOF record closes its log
Finished == pc = "done" /\ Last(log).name = "EOF"

\* the bound of the model, not the program, keeps the run from a turn it is
\* about to start: hush is raised, terminate_dialog was not dispatched, and
\* fewer than the two turns that follow the turn of hush are completed
CutByBound ==
    /\ ~TurnFits
    /\ ~shouldExit
    /\ pc \in {"loop", "sleepOpenai"}
    /\ terminateAt = 0
    /\ Len(messages) <= hushAt + 2

\* C35: when every awaited call returns, a run in which hush was raised or
\* terminate_dialog was dispatched, and in which abort_process is not
\* dispatched, comes to write the EOF record and to return (or is cut by the
\* bound of the model before its last turns); and once the EOF record is
\* written no turn starts, no request is made and nothing is logged.
C35_FinishingRunWritesEof ==
    /\ ((hushAt # 0 \/ terminateAt # 0) ~> (Finished \/ abortRan \/ CutByBound))
    /\ [][Finished =>
            /\ Finished'
            /\ messages' = messages
            /\ apiCalls' = apiCalls
            /\ log' = log
            /\ tpc' = tpc]_vars

\* hush was raised, terminate_dialog was never dispatched, and the run wrote
\* its EOF record and returned
C35_Witness ==
    /\ Finished
    /\ hushAt # 0
    /\ terminateAt = 0
    /\ ~abortRan
    /\ finishTurnCount = 2

(***************************************************************************)
(* C36.  The flags only rise and the finish counter only grows.            *)
(***************************************************************************)
\* C36: the hush flag, terminationAccepted and the exit flag never go back
\* from true to false; finishTurnCount never decreases, is 0, 1 or 2 in
\* every reachable state, and is positive only when the hush flag is set.
C36_FlagsOnlyRise ==
    /\ [](/\ finishTurnCount \in 0..2
          /\ finishTurnCount > 0 => hushFinish)
    /\ [][/\ hushFinish => hushFinish'
          /\ terminationAccepted => terminationAccepted'
          /\ shouldExit => shouldExit'
          /\ finishTurnCount' >= finishTurnCount]_vars

\* all three flags are set and the counter stands at 2: hush was raised, two
\* checkpoints counted, terminate_dialog ran and #finish closed the run
C36_Witness ==
    /\ hushFinish
    /\ terminationAccepted
    /\ shouldExit
    /\ finishTurnCount = 2
    /\ pc = "done"
    /\ Last(log).name = "EOF"

(***************************************************************************)
(* C37.  Failure counters and placeholder messages go together.            *)
(***************************************************************************)
\* the number of placeholder messages of a side in the message sequence
Placeholders(side) ==
    Cardinality({i \in 1..Len(messages) :
                    messages[i] = [name |-> side, content |-> PlaceholderText(side)]})

\* C37: each side's failure counter equals the number of that side's
\* placeholder messages; a step changes a counter exactly when it appends
\* that side's placeholder, which is a step of that side's executor that
\* caught an error; a turn that returns its answer and a turn that
\* abort_process ends change neither.
C37_FailuresMatchPlaceholders ==
    /\ [](/\ openaiFailureCount = Placeholders("openai")
          /\ anthropicFailureCount = Placeholders("anthropic"))
    /\ [][/\ failVars' # failVars =>
                /\ Executing
                /\ caught' \notin {"none", "abort"}
                /\ messages' = Append(messages,
                       [name |-> TurnSide, content |-> PlaceholderText(TurnSide)])
          /\ (Executing /\ tpc' = "returned" /\ caught' \in {"none", "abort"}) =>
                /\ failVars' = failVars
                /\ Placeholders("openai")' = Placeholders("openai")
                /\ Placeholders("anthropic")' = Placeholders("anthropic")]_vars

\* each side has failed once and one turn has returned its answer; the run
\* is between turns
C37_Witness ==
    /\ openaiFailureCount = 1
    /\ anthropicFailureCount = 1
    /\ Len(messages) = 4
    /\ ~InTurn
    /\ ~abortRan

(***************************************************************************)
(* C38.  The conversation log and the message sequence stay in step.       *)
(***************************************************************************)
\* the log records that carry the display name of a side, in log order
UtteranceRecords ==
    SelectSeq(log, LAMBDA r : r.name \in {"GPT 5.1", "Claude Haiku 4.5"})

\* the messages the utterance records stand for: the side of the display
\* name and the logged text
LoggedMessages ==
    [i \in 1..Len(UtteranceRecords) |->
        [name |-> IF UtteranceRecords[i].name = "GPT 5.1"
                  THEN "openai" ELSE "anthropic",
         content |-> UtteranceRecords[i].text]]

\* an executor has returned with a message that #run has not logged yet
LogPending == InTurn /\ tpc = "returned" /\ caught # "abort"

\* C38: the records logged under a side's display name are, in order, the
\* messages after the seeded introduction, each once and under the name of
\* its own speaker; only the message of an executor that has just returned
\* may still be missing, and it is logged in the next step of #run, before
\* any further request.
C38_LogFollowsMessages ==
    /\ [](LoggedMessages =
             SubSeq(messages, 2,
                    IF LogPending THEN Len(messages) - 1 ELSE Len(messages)))
    /\ [][LogPending =>
            /\ apiCalls' = apiCalls
            /\ messages' = messages
            /\ ~LogPending'
            /\ \/ finishAgain' # finishAgain
               \/ log' # log]_vars

\* three turns are logged, one of them a placeholder, one an empty answer
C38_Witness ==
    /\ Len(messages) = 4
    /\ Len(UtteranceRecords) = 3
    /\ \E i \in 2..4 : messages[i].content = PlaceholderText(messages[i].name)
    /\ \E i \in 2..4 : messages[i].content = ""
    /\ \E i \in 2..4 : messages[i].content = "text"

(***************************************************************************)
(* C39.  set_personal_notes touches the caller's notes only.               *)
(***************************************************************************)
\* C39 as stated: a set_personal_notes by a side leaves that side's
\* additionalSystemInstructions, the whole record of the other side and the
\* pending proposal as they were, whether or not the read of the side's data
\* file succeeds.
C39_Original ==
    [][HandlerStep("set_personal_notes") =>
          /\ modelData'[toolCall'.modelSide].additionalSystemInstructions
                = modelData[toolCall'.modelSide].additionalSystemInstructions
          /\ modelData'[OtherSide(toolCall'.modelSide)]
                = modelData[OtherSide(toolCall'.modelSide)]
          /\ pendingFile' = pendingFile]_vars

(***************************************************************************)
(* C40.  Every session a retrieval handler opens is closed (under RagSpec).*)
(***************************************************************************)
\* C40 as stated, read in its favour (a close that was called counts, also
\* when it rejects): when graph_rag_query or graph_rag_focus_node has
\* returned or thrown, the session it opened has been closed, on the early
\* returns for an empty term list and for a blank node id as on every other
\* path.
C40_Original ==
    ragCall.stage = "done" => ragCall.session \in {"closed", "close_failed"}

====
